---------------------------- MODULE Spec2Model ----------------------------
(***************************************************************************)
(* A model of the XLSX reader of zhdict (src/src/xlsx.c): opening a        *)
(* package (xlsx_doc_at), building the shared-string table (_xlsx_strtab)  *)
(* and the worksheet grid (_xlsx_sheet).                                   *)
(*                                                                         *)
(* C strings are sequences of one-character strings; a NULL pointer to a   *)
(* string is the record Null.  A size_t is kept as the signed reading of   *)
(* its 64-bit pattern: a negative number n stands for 2^64 + n, and        *)
(* unsigned comparisons are made by ULt.                                   *)
(***************************************************************************)
EXTENDS Integers, Sequences, FiniteSets, TLC

(***************************************************************************)
(* Bounds of the input families.                                           *)
(***************************************************************************)
MaxRow0Cells == 3
MaxLaterCells == 2
MaxStrings == 2
MaxRels == 3

(***************************************************************************)
(* Strings and the libc conversions the reader uses.                       *)
(***************************************************************************)
Null == [null |-> TRUE, s |-> <<>>]
Str(s) == [null |-> FALSE, s |-> s]

Digits == {"0", "1", "2", "3", "4", "5", "6", "7", "8", "9"}

DigitVal(c) ==
    CASE c = "0" -> 0 [] c = "1" -> 1 [] c = "2" -> 2 [] c = "3" -> 3
      [] c = "4" -> 4 [] c = "5" -> 5 [] c = "6" -> 6 [] c = "7" -> 7
      [] c = "8" -> 8 [] c = "9" -> 9

IsSpace(c) == c = " "

RECURSIVE SkipSpace(_, _)
SkipSpace(s, p) ==
    IF p <= Len(s) /\ IsSpace(s[p]) THEN SkipSpace(s, p + 1) ELSE p

RECURSIVE ScanDigits(_, _, _)
ScanDigits(s, p, acc) ==
    IF p <= Len(s) /\ s[p] \in Digits
    THEN ScanDigits(s, p + 1, acc * 10 + DigitVal(s[p]))
    ELSE [val |-> acc, end |-> p]

\* strtoll(value, &end, 10): val is the number read, end the position (from 1)
\* of the first character not consumed; end > Len(s) is the terminator.
strtoll(s) ==
    LET p0 == SkipSpace(s, 1)
        signed == p0 <= Len(s) /\ s[p0] \in {"-", "+"}
        p1 == IF signed THEN p0 + 1 ELSE p0
        d == ScanDigits(s, p1, 0)
    IN  IF d.end = p1
        THEN [val |-> 0, end |-> 1]
        ELSE [val |-> IF signed /\ s[p0] = "-" THEN 0 - d.val ELSE d.val,
              end |-> d.end]

\* strtod(value, &end) on decimal text (the alphabet of the inputs has no
\* exponent, hexadecimal, "inf" or "nan" letters).  The double is kept as
\* sign, integer digits, fraction digits and the number of fraction digits.
strtod(s) ==
    LET p0 == SkipSpace(s, 1)
        signed == p0 <= Len(s) /\ s[p0] \in {"-", "+"}
        p1 == IF signed THEN p0 + 1 ELSE p0
        ip == ScanDigits(s, p1, 0)
        dot == ip.end <= Len(s) /\ s[ip.end] = "."
        fp == IF dot THEN ScanDigits(s, ip.end + 1, 0)
                     ELSE [val |-> 0, end |-> ip.end]
        fd == IF dot THEN fp.end - (ip.end + 1) ELSE 0
    IN  IF (ip.end - p1) + fd = 0
        THEN [val |-> [neg |-> FALSE, ip |-> 0, fp |-> 0, fd |-> 0], end |-> 1]
        ELSE [val |-> [neg |-> signed /\ s[p0] = "-", ip |-> ip.val,
                       fp |-> fp.val, fd |-> fd],
              end |-> fp.end]

\* A check that notices only two or more characters left over.
UnconsumedTwo(s, conv) == conv.end < Len(s)

\* end[0] != 0: the conversion stopped before the terminator.
Unconsumed(s, conv) == conv.end <= Len(s)

\* a < b on size_t values kept as the signed reading of their bit pattern.
ULt(a, b) == IF (a >= 0) = (b >= 0) THEN a < b ELSE a >= 0


(***************************************************************************)
(* The input: a package, as the reader sees it through the archive         *)
(* accessor and the XML document model.                                    *)
(*   archive    zip_open succeeds                                          *)
(*   rels       the relationships part: present (it can be read and        *)
(*              parsed), root (xml_find finds "Relationships"), entries    *)
(*              (the children of the root: each has its node name and its  *)
(*              attributes in document order, each a name and a value)     *)
(*   strings    the shared-strings part: present, sst (xml_find finds      *)
(*              "sst"), count (the root's count attribute), si (for each   *)
(*              child of the root, the content of its si.t.text node, or   *)
(*              Null when xml_find finds none)                             *)
(*   sheet      the worksheet part: present, data (xml_find finds          *)
(*              worksheet.sheetData), rows; a row has its r attribute and  *)
(*              its cells; a cell has its r and t attributes and v, the    *)
(*              content of its c.v.text node (Null when there is none)     *)
(***************************************************************************)
SeqsUpTo(S, n) == UNION {[1..k -> S] : k \in 0..n}

DigitChar(d) ==
    CASE d = 0 -> "0" [] d = 1 -> "1" [] d = 2 -> "2" [] d = 3 -> "3"
      [] d = 4 -> "4" [] d = 5 -> "5" [] d = 6 -> "6" [] d = 7 -> "7"
      [] d = 8 -> "8" [] d = 9 -> "9"

\* The reference of the row with (zero-based) index i: its one-based number.
RowRef(i) == <<DigitChar(i + 1)>>

MkCell(name, i, kind) == [r |-> Str(name \o RowRef(i)), t |-> kind.t, v |-> kind.v]
MkRow(i, cells) == [r |-> Str(RowRef(i)), cells |-> cells]

KInt == [t |-> Null, v |-> Str(<<"7">>)]
KLstr == [t |-> Str(<<"s", "t", "r">>), v |-> Str(<<"h", "i">>)]
KBad == [t |-> Null, v |-> Str(<<"4", "a">>)]
KSref == [t |-> Str(<<"s">>), v |-> Str(<<"1">>)]

ColNames == {<<"A">>, <<"B">>, <<"A", "B">>}

WORKSHEET == <<"w", "o", "r", "k", "s", "h", "e", "e", "t">>
SHARED_STRINGS == <<"s", "h", "a", "r", "e", "d", "S", "t", "r", "i", "n", "g", "s">>

Attr(name, val) == [name |-> name, val |-> val]
RelNode(name, attrs) == [name |-> name, attrs |-> attrs]

\* A Relationship entry with an Id, a Type of the given last segment and a
\* Target of the given path.
RelEntry(type, target) ==
    RelNode("Relationship",
            <<Attr("Id", Str(<<"r">>)),
              Attr("Type", Str(<<"o", "/", "r", "/">> \o type)),
              Attr("Target", Str(target))>>)

WsTarget == <<"w", ".", "x">>
SsTarget == <<"s", ".", "x">>

GoodRels ==
    [present |-> TRUE, root |-> TRUE,
     entries |-> <<RelEntry(WORKSHEET, WsTarget), RelEntry(SHARED_STRINGS, SsTarget)>>]

StringsPart(count, si) == [present |-> TRUE, sst |-> TRUE, count |-> count, si |-> si]
GoodStrings == StringsPart(Str(<<"2">>), <<Str(<<"t", "0">>), Str(<<"t", "1">>)>>)

SheetPart(rows) == [present |-> TRUE, data |-> TRUE, rows |-> rows]

Package(rels, strs, sheet) ==
    [archive |-> TRUE, rels |-> rels, strings |-> strs, sheet |-> sheet]

\* Documents that vary the column names: row 0 declares up to MaxRow0Cells
\* columns of different names, row 1 holds up to MaxLaterCells cells of any
\* names (repeated ones too), an optional row 2 follows.
Row0Names ==
    {q \in SeqsUpTo(ColNames, MaxRow0Cells) :
        \A a, b \in 1..Len(q) : a # b => q[a] # q[b]}

Row0Of(names) ==
    MkRow(0, [k \in 1..Len(names) |->
                 MkCell(names[k], 0, IF k = 1 THEN KLstr ELSE KInt)])

Row1Of(names, pat) ==
    MkRow(1, [k \in 1..Len(names) |->
                 MkCell(names[k], 1,
                        CASE pat = "int" -> KInt
                          [] pat = "lstr" -> KLstr
                          [] pat = "bad" -> IF k = Len(names) THEN KBad ELSE KLstr)])

TailRows ==
    {<<>>, <<MkRow(2, <<MkCell(<<"A">>, 2, KLstr)>>)>>, <<MkRow(2, <<>>)>>}

NameSheets ==
    {<<>>}
    \cup {<<Row0Of(n0)>> : n0 \in Row0Names}
    \cup {<<Row0Of(n0), Row1Of(n1, pat)>> \o tail :
            n0 \in Row0Names,
            n1 \in SeqsUpTo(ColNames, MaxLaterCells),
            pat \in {"int", "lstr", "bad"},
            tail \in TailRows}

NameDocs == {Package(GoodRels, GoodStrings, SheetPart(rows)) : rows \in NameSheets}

\* Documents that vary one cell's type attribute and value text.
TypeAttrs == {Null, Str(<<"s">>), Str(<<"s", "t", "r">>), Str(<<"b">>)}

ValueTexts ==
    {Null, Str(<<>>), Str(<<"0">>), Str(<<"1">>), Str(<<"2">>), Str(<<"4", "2">>),
     Str(<<"4", ".", "2">>), Str(<<"4", "2", ".">>), Str(<<"4", "a">>),
     Str(<<"-", "1">>), Str(<<".">>), Str(<<"4", ".", "2", "a">>), Str(<<"a">>)}

TypeSheets ==
    {<<MkRow(0, <<MkCell(<<"A">>, 0, KLstr), MkCell(<<"B">>, 0, [t |-> t, v |-> v])>>)>> :
        t \in TypeAttrs, v \in ValueTexts}

TypeDocs == {Package(GoodRels, GoodStrings, SheetPart(rows)) : rows \in TypeSheets}

\* Documents that vary the shared-strings part: the count attribute, and which
\* children of the root have a text node (child k's text is "t" and digit k).
CountAttrs ==
    {Null, Str(<<>>), Str(<<"0">>), Str(<<"1">>), Str(<<"2">>), Str(<<"3">>),
     Str(<<"-", "1">>), Str(<<"2", "x">>), Str(<<"x">>)}

SiLists ==
    {[k \in 1..Len(has) |-> IF has[k] THEN Str(<<"t", DigitChar(k - 1)>>) ELSE Null] :
        has \in SeqsUpTo(BOOLEAN, MaxStrings)}

StrSheet == <<MkRow(0, <<MkCell(<<"A">>, 0, KSref)>>)>>

StrDocs ==
    {Package(GoodRels, StringsPart(count, si), SheetPart(StrSheet)) :
        count \in CountAttrs, si \in SiLists}

\* The scenario of the specification: two strings; row 1 has A1 (type s, value
\* 0) and B1 (type str, value "hi"); row 2 has only A2 (no type, value 7).
ScenarioSheet ==
    <<MkRow(0, <<MkCell(<<"A">>, 0, [t |-> Str(<<"s">>), v |-> Str(<<"0">>)]),
                 MkCell(<<"B">>, 0, KLstr)>>),
      MkRow(1, <<MkCell(<<"A">>, 1, KInt)>>)>>

ScenarioDoc == Package(GoodRels, GoodStrings, SheetPart(ScenarioSheet))

\* Packages that are broken at one stage of the open.
FailDocs ==
    {[ScenarioDoc EXCEPT !.archive = FALSE],
     [ScenarioDoc EXCEPT !.rels.present = FALSE],
     [ScenarioDoc EXCEPT !.rels.root = FALSE],
     [ScenarioDoc EXCEPT !.rels.entries = <<RelEntry(WORKSHEET, WsTarget)>>],
     [ScenarioDoc EXCEPT !.rels.entries = <<RelEntry(SHARED_STRINGS, SsTarget)>>],
     [ScenarioDoc EXCEPT !.rels.entries = <<>>],
     [ScenarioDoc EXCEPT !.strings.present = FALSE],
     [ScenarioDoc EXCEPT !.strings.sst = FALSE],
     [ScenarioDoc EXCEPT !.sheet.present = FALSE],
     [ScenarioDoc EXCEPT !.sheet.data = FALSE],
     [ScenarioDoc EXCEPT !.sheet.rows[2].r = Null],
     [ScenarioDoc EXCEPT !.sheet.rows[1].cells[2].r = Null],
     [ScenarioDoc EXCEPT !.sheet.rows[1].r = Null],
     [ScenarioDoc EXCEPT !.sheet.rows[2].cells[1].r = Null]}

\* Documents that vary the relationships part: up to MaxRels children of the
\* root, each of one of these kinds; the Target of child k is "t" and digit k.
\*   ws, ss     a worksheet / sharedStrings entry, Type before Target
\*   ws_rev     a worksheet entry, Target before Type
\*   ss_id      a sharedStrings entry after an Id attribute
\*   other      an entry of another type
\*   bare       an entry whose Type is "worksheet" without any "/"
\*   notype     an entry without Type attribute
\*   notarget   an entry without Target attribute
\*   node       a child that is no Relationship node
RelKinds == {"ws", "ss", "ws_rev", "ss_id", "other", "bare", "notype", "notarget", "node"}

TargetOf(k) == Str(<<"t", DigitChar(k)>>)

RelOfKind(kind, k) ==
    CASE kind = "ws" ->
           RelNode("Relationship", <<Attr("Type", Str(<<"r", "/">> \o WORKSHEET)),
                                     Attr("Target", TargetOf(k))>>)
      [] kind = "ss" ->
           RelNode("Relationship", <<Attr("Type", Str(<<"r", "/">> \o SHARED_STRINGS)),
                                     Attr("Target", TargetOf(k))>>)
      [] kind = "ws_rev" ->
           RelNode("Relationship", <<Attr("Target", TargetOf(k)),
                                     Attr("Type", Str(<<"o", "/", "r", "/">> \o WORKSHEET))>>)
      [] kind = "ss_id" ->
           RelNode("Relationship", <<Attr("Id", Str(<<"r">>)),
                                     Attr("Type", Str(<<"o", "/", "r", "/">> \o SHARED_STRINGS)),
                                     Attr("Target", TargetOf(k))>>)
      [] kind = "other" ->
           RelNode("Relationship", <<Attr("Type", Str(<<"r", "/", "x">>)),
                                     Attr("Target", TargetOf(k))>>)
      [] kind = "bare" ->
           RelNode("Relationship", <<Attr("Type", Str(WORKSHEET)),
                                     Attr("Target", TargetOf(k))>>)
      [] kind = "notype" ->
           RelNode("Relationship", <<Attr("Id", Str(<<"r">>)), Attr("Target", TargetOf(k))>>)
      [] kind = "notarget" ->
           RelNode("Relationship", <<Attr("Type", Str(<<"r", "/">> \o WORKSHEET))>>)
      [] kind = "node" ->
           RelNode("Other", <<Attr("Type", Str(<<"r", "/">> \o WORKSHEET)),
                              Attr("Target", TargetOf(k))>>)

RelLists ==
    {[k \in 1..Len(kinds) |-> RelOfKind(kinds[k], k)] : kinds \in SeqsUpTo(RelKinds, MaxRels)}

RelDocs ==
    {Package([present |-> TRUE, root |-> TRUE, entries |-> es], GoodStrings, SheetPart(<<>>)) :
        es \in RelLists}

Packages == NameDocs \cup TypeDocs \cup StrDocs \cup FailDocs \cup RelDocs \cup {ScenarioDoc}

(***************************************************************************)
(* The state of one call of xlsx_doc_at.                                   *)
(*   pkg            the package being opened                               *)
(*   pc             the position in xlsx_doc_at and its callees            *)
(*   ret            what xlsx_doc_at returned: "none" yet, "NULL", "doc"   *)
(*   acq, rel       how often each resource was acquired and released      *)
(*   targets        worksheet, strings: the Target found for each (or Null)*)
(*   strtab         doc->strtab: count, base (Null or the slots)           *)
(*   n              the index of the next child of the strings root        *)
(*   ok             the result of the traversal under way                  *)
(*   rows, cols     doc->rows, doc->cols                                   *)
(*   cname_maxlen   the longest derived column name seen in pass 1         *)
(*   grid           doc->grid, row-major (cell k of C is grid[k + 1])      *)
(*   cnames         the scratch buffer of column names                     *)
(*   i, cj          the row index and the cell's position in its row       *)
(*   j              the column index the last cell resolved to (cols: none)*)
(*   lstr           the strings made by strdup, each with its text and     *)
(*                  the number of times it was freed; a cell's str is an   *)
(*                  index into lstr                                        *)
(***************************************************************************)
VARIABLES pkg, pc, ret, acq, rel, targets, strtab, n, ok, rows, cols,
          cname_maxlen, grid, cnames, i, cj, j, lstr,
          call, arg, ri, ci, seen, prev, status, view, wild,
          tree, blk, errs, names, path, result, xlpath

vars == <<pkg, pc, ret, acq, rel, targets, strtab, n, ok, rows, cols,
          cname_maxlen, grid, cnames, i, cj, j, lstr,
          call, arg, ri, ci, seen, prev, status, view, wild,
          tree, blk, errs, names, path, result, xlpath>>

\* A pointer into the grid, as the offset of the cell it points to.
NullPtr == [null |-> TRUE, off |-> 0]
Ptr(off) == [null |-> FALSE, off |-> off]

\* The state of the caller of a handle: the operation in progress (call), its
\* index argument (arg), the loop variables of xlsx_foreach_row (ri) and of
\* xlsx_foreach's block (ci), the block invocations so far (seen), those of
\* the complete iteration of the same kind just before it (prev), what the
\* operation returned (status, view) and the number of calls of free() on a
\* pointer that was never set (wild).
apiVars == <<call, arg, ri, ci, seen, prev, status, view, wild>>

\* The XML tree a traversal is run on, each node with the sequence of its
\* children (tree), what the traversal's block returns on each node (blk), and
\* the nesting-depth errors written to stderr, each as the number of block
\* invocations made when it was written (errs); for a search, the names of the
\* nodes (names), the path looked for (path) and the node returned (result);
\* for a Target (path), the string _xlsx_xl_path makes of it (xlpath).
xmlVars == <<tree, blk, errs, names, path, result, xlpath>>

Res == {"archive", "rels", "doc", "strdata", "base", "wsdata", "grid", "cnames"}

Acquire(r) == acq' = [acq EXCEPT ![r] = @ + 1]
Release(S) == rel' = [r \in Res |-> IF r \in S THEN rel[r] + 1 ELSE rel[r]]

NUL == "NUL"
Uninit == "?"
F0 == [neg |-> FALSE, ip |-> 0, fp |-> 0, fd |-> 0]
UninitCell == [type |-> "UNINIT", sref |-> 0, ival |-> 0, fval |-> F0, str |-> 0]

Init ==
    /\ pkg \in Packages
    /\ pc = "zopen"
    /\ ret = "none"
    /\ acq = [r \in Res |-> 0]
    /\ rel = [r \in Res |-> 0]
    /\ targets = [worksheet |-> Null, strings |-> Null]
    /\ strtab = [count |-> 0, base |-> Null]
    /\ n = 0
    /\ ok = TRUE
    /\ rows = 0
    /\ cols = 0
    /\ cname_maxlen = 0
    /\ grid = <<>>
    /\ cnames = <<>>
    /\ i = 0
    /\ cj = 0
    /\ j = 0
    /\ lstr = <<>>
    /\ call = "none"
    /\ arg = 0
    /\ ri = 0
    /\ ci = 0
    /\ seen = <<>>
    /\ prev = <<>>
    /\ status = 0
    /\ view = NullPtr
    /\ wild = 0
    /\ tree = <<>>
    /\ blk = <<>>
    /\ errs = <<>>
    /\ names = <<>>
    /\ path = <<>>
    /\ result = 0 - 1
    /\ xlpath = Null

\* xml_visit_tree's contract for what the block returns: a negative value
\* breaks the traversal, which returns it; otherwise the traversal goes on
\* with the next sibling and returns 0 at the end.
VisitStops(r) == r < 0

(***************************************************************************)
(* xlsx_doc_at, up to the handle's allocation.                             *)
(***************************************************************************)
sheetVars == <<rows, cols, cname_maxlen, grid, cnames, i, cj, j, lstr>>
strVars == <<strtab, n>>

\* zopen(path)
ZOpen ==
    /\ pc = "zopen"
    /\ IF pkg.archive
       THEN Acquire("archive") /\ pc' = "rels" /\ ret' = ret
       ELSE pc' = "done" /\ ret' = "NULL" /\ acq' = acq
    /\ UNCHANGED <<pkg, rel, targets, ok, strVars, sheetVars>>
    /\ UNCHANGED apiVars
    /\ UNCHANGED xmlVars

\* zxml_root_at(archive, XLSX_RELS)
LoadRels ==
    /\ pc = "rels"
    /\ IF pkg.rels.present
       THEN Acquire("rels") /\ pc' = "rdata" /\ ret' = ret /\ rel' = rel
       ELSE Release({"archive"}) /\ pc' = "done" /\ ret' = "NULL" /\ acq' = acq
    /\ UNCHANGED <<pkg, targets, ok, strVars, sheetVars>>
    /\ UNCHANGED apiVars
    /\ UNCHANGED xmlVars

\* xml_find(rels, "Relationships")
FindRelationships ==
    /\ pc = "rdata"
    /\ IF pkg.rels.root
       THEN pc' = "resolve" /\ ret' = ret /\ rel' = rel
       ELSE Release({"rels", "archive"}) /\ pc' = "done" /\ ret' = "NULL"
    /\ UNCHANGED <<pkg, acq, targets, ok, strVars, sheetVars>>
    /\ UNCHANGED apiVars
    /\ UNCHANGED xmlVars

\* xml_node_attributes' contract for what the block returns: a non-zero value
\* stops the loop over the attributes, 0 goes on with the next attribute.
AttrStops(r) == r # 0

\* strrchr(val, '/'): the offset of the last "/", or NoSlash for NULL.
NoSlash == 0 - 1

RECURSIVE strrchr(_, _)
strrchr(s, p) ==
    IF p = 0 THEN NoSlash ELSE IF s[p] = "/" THEN p - 1 ELSE strrchr(s, p - 1)

\* type = (last ? &last[1] : "?")
TypeOfVal(val) ==
    LET last == strrchr(val, Len(val))
    IN  IF last = NoSlash THEN <<"?">> ELSE SubSeq(val, last + 2, Len(val))

\* The block run on each attribute of an entry, from attribute k on; st holds
\* type and target.
RECURSIVE ScanAttrs(_, _, _)
ScanAttrs(attrs, k, st) ==
    IF k > Len(attrs) THEN st
    ELSE LET a == attrs[k]
             now == IF a.name = "Type" THEN [st EXCEPT !.type = Str(TypeOfVal(a.val.s))]
                    ELSE IF a.name = "Target" THEN [st EXCEPT !.target = a.val]
                    ELSE st
             r == IF ~now.target.null /\ ~now.type.null THEN 0 - 1 ELSE 0
         IN  IF AttrStops(r) THEN now ELSE ScanAttrs(attrs, k + 1, now)

\* The block run on each child of the relationships root, from child k on: a
\* node that is no Relationship is passed over, an entry without Target or
\* Type stops the traversal, as does having found both targets.
RECURSIVE ResolveFrom(_, _, _)
ResolveFrom(entries, k, found) ==
    IF k > Len(entries) THEN found
    ELSE LET e == entries[k]
             st == ScanAttrs(e.attrs, 1, [type |-> Null, target |-> Null])
             now == IF st.type.s = WORKSHEET THEN [found EXCEPT !.worksheet = st.target]
                    ELSE IF st.type.s = SHARED_STRINGS THEN [found EXCEPT !.strings = st.target]
                    ELSE found
             r == IF e.name # "Relationship" THEN 0
                  ELSE IF st.target.null \/ st.type.null THEN 0 - 1
                  ELSE IF ~now.worksheet.null /\ ~now.strings.null THEN 0 - 1 ELSE 1
         IN  IF e.name # "Relationship" THEN ResolveFrom(entries, k + 1, found)
             ELSE IF st.target.null \/ st.type.null THEN found
             ELSE IF VisitStops(r) THEN now
             ELSE ResolveFrom(entries, k + 1, now)

\* The traversal of the relationships and the check that both were found.
ResolveTargets ==
    /\ pc = "resolve"
    /\ targets' = ResolveFrom(pkg.rels.entries, 1, targets)
    /\ IF ~targets'.worksheet.null /\ ~targets'.strings.null
       THEN pc' = "alloc_doc" /\ ret' = ret /\ rel' = rel
       ELSE Release({"rels", "archive"}) /\ pc' = "done" /\ ret' = "NULL"
    /\ UNCHANGED <<pkg, acq, ok, strVars, sheetVars>>
    /\ UNCHANGED apiVars
    /\ UNCHANGED xmlVars

\* doc = malloc(sizeof(struct xlsx))
AllocDoc ==
    /\ pc = "alloc_doc"
    /\ \E got \in BOOLEAN :
         IF got
         THEN Acquire("doc") /\ pc' = "strtab_root" /\ ret' = ret /\ rel' = rel
         ELSE Release({"rels", "archive"}) /\ pc' = "done" /\ ret' = "NULL"
              /\ acq' = acq
    /\ UNCHANGED <<pkg, targets, ok, strVars, sheetVars>>
    /\ UNCHANGED apiVars
    /\ UNCHANGED xmlVars

(***************************************************************************)
(* _xlsx_strtab, and xlsx_doc_at's handling of its failure.                *)
(***************************************************************************)
otherVars == <<pkg, targets, sheetVars>>

\* strdata = _xlsx_xl_root(archive, path)
StrtabRoot ==
    /\ pc = "strtab_root"
    /\ IF pkg.strings.present
       THEN Acquire("strdata") /\ pc' = "strtab_find"
       ELSE pc' = "strtab_failed" /\ acq' = acq
    /\ UNCHANGED <<ret, rel, ok, strVars, otherVars>>
    /\ UNCHANGED apiVars
    /\ UNCHANGED xmlVars

\* table = xml_find(strdata, "sst")
StrtabFind ==
    /\ pc = "strtab_find"
    /\ IF pkg.strings.sst
       THEN pc' = "strtab_size" /\ rel' = rel
       ELSE Release({"strdata"}) /\ pc' = "strtab_failed"
    /\ UNCHANGED <<ret, acq, ok, strVars, otherVars>>
    /\ UNCHANGED apiVars
    /\ UNCHANGED xmlVars

\* calloc(count, sizeof(char *)): the slots, all NULL.
Calloc(count) == Str([k \in 1..count |-> Null])

\* A count that takes the root along with its children.
CountWithRoot(si) == Len(si) + 1

\* The block of the counting traversal returns 1 for each child of the root,
\* so its subtree is skipped: the immediate children are counted.
CountChildren(si) == Len(si)

\* The count attribute and the first calloc.  got: calloc returns memory (it
\* cannot when the count, read as a size_t, is 2^63 or more).
StrtabCount ==
    /\ pc = "strtab_size"
    /\ \E got \in BOOLEAN :
         LET count == pkg.strings.count
             conv == strtoll(count.s)
         IN  IF ~count.null /\ Len(count.s) > 0
             THEN IF ~Unconsumed(count.s, conv) /\ got /\ conv.val >= 0
                  THEN /\ strtab' = [count |-> conv.val, base |-> Calloc(conv.val)]
                       /\ Acquire("base")
                  ELSE /\ strtab' = [count |-> conv.val, base |-> Null]
                       /\ acq' = acq
             ELSE /\ strtab' = [count |-> 0, base |-> Null]
                  /\ acq' = acq
    /\ pc' = "strtab_fallback"
    /\ UNCHANGED <<ret, rel, ok, n, otherVars>>
    /\ UNCHANGED apiVars
    /\ UNCHANGED xmlVars

\* Without a table yet, the children are counted and calloc is called again.
StrtabFallback ==
    /\ pc = "strtab_fallback"
    /\ IF ~strtab.base.null
       THEN pc' = "strtab_fill" /\ UNCHANGED <<strtab, acq, rel>>
       ELSE \E got \in BOOLEAN :
              IF got
              THEN /\ strtab' = [count |-> CountChildren(pkg.strings.si),
                                 base |-> Calloc(CountChildren(pkg.strings.si))]
                   /\ Acquire("base")
                   /\ pc' = "strtab_fill"
                   /\ rel' = rel
              ELSE /\ strtab' = [count |-> CountChildren(pkg.strings.si), base |-> Null]
                   /\ Release({"strdata"})
                   /\ pc' = "strtab_failed"
                   /\ acq' = acq
    /\ n' = 0
    /\ ok' = TRUE
    /\ UNCHANGED <<ret, otherVars>>
    /\ UNCHANGED apiVars
    /\ UNCHANGED xmlVars

\* A fill block without the comparison of the index to the count.
StrtabFillUnchecked(tab, tnode, k) ==
    IF tnode.null THEN [ret |-> 0 - 1, tab |-> tab]
    ELSE [ret |-> 1,
          tab |-> IF ULt(k, tab.count) THEN [tab EXCEPT !.base.s[k + 1] = tnode] ELSE tab]

\* The block of the fill traversal on child node (its si.t.text content, or
\* Null) with index k: what it returns and the table after it.
StrtabFillBlk(tab, tnode, k) ==
    IF tnode.null THEN [ret |-> 0 - 1, tab |-> tab]
    ELSE IF ~ULt(k, tab.count) THEN [ret |-> 0 - 1, tab |-> tab]
    ELSE [ret |-> 1, tab |-> [tab EXCEPT !.base.s[k + 1] = tnode]]

\* One step of the fill traversal.
StrtabFill ==
    /\ pc = "strtab_fill"
    /\ ok
    /\ n < Len(pkg.strings.si)
    /\ LET out == StrtabFillBlk(strtab, pkg.strings.si[n + 1], n)
       IN  /\ strtab' = out.tab
           /\ IF VisitStops(out.ret)
              THEN ok' = FALSE /\ n' = n
              ELSE ok' = TRUE /\ n' = n + 1
    /\ UNCHANGED <<pc, ret, acq, rel, otherVars>>
    /\ UNCHANGED apiVars
    /\ UNCHANGED xmlVars

\* After the fill traversal: give up, or return 0 to xlsx_doc_at.
StrtabEnd ==
    /\ pc = "strtab_fill"
    /\ ~ok \/ n = Len(pkg.strings.si)
    /\ IF ~ok
       THEN Release({"strdata", "base"}) /\ pc' = "strtab_failed"
       ELSE pc' = "sheet_root" /\ rel' = rel
    /\ UNCHANGED <<ret, acq, ok, strVars, otherVars>>
    /\ UNCHANGED apiVars
    /\ UNCHANGED xmlVars

\* xlsx_doc_at when _xlsx_strtab returned non-zero.
StrtabFailed ==
    /\ pc = "strtab_failed"
    /\ Release({"rels", "archive", "doc"})
    /\ pc' = "done"
    /\ ret' = "NULL"
    /\ UNCHANGED <<acq, ok, strVars, otherVars>>
    /\ UNCHANGED apiVars
    /\ UNCHANGED xmlVars

(***************************************************************************)
(* _xlsx_sheet: loading the part and pass 1 (sizing).                      *)
(***************************************************************************)
restVars == <<pkg, targets, strVars>>

\* wsdata = _xlsx_xl_root(archive, path)
SheetRoot ==
    /\ pc = "sheet_root"
    /\ IF pkg.sheet.present
       THEN Acquire("wsdata") /\ pc' = "sheet_find"
       ELSE pc' = "sheet_failed" /\ acq' = acq
    /\ UNCHANGED <<ret, rel, ok, restVars, sheetVars>>
    /\ UNCHANGED apiVars
    /\ UNCHANGED xmlVars

\* sheet = xml_find(wsdata, "worksheet.sheetData"); the counters are reset.
SheetFind ==
    /\ pc = "sheet_find"
    /\ IF pkg.sheet.data
       THEN pc' = "pass1" /\ rel' = rel
       ELSE Release({"wsdata"}) /\ pc' = "sheet_failed"
    /\ rows' = 0
    /\ cols' = 0
    /\ cname_maxlen' = 0
    /\ i' = 0
    /\ ok' = TRUE
    /\ UNCHANGED <<ret, acq, restVars, grid, cnames, cj, j, lstr>>
    /\ UNCHANGED apiVars
    /\ UNCHANGED xmlVars

\* strlen(col_name) - row_namelen, in size_t arithmetic.
CnameLen(col_name, row_namelen) == Len(col_name) - row_namelen

\* An inner traversal of pass 1 that does not look for the r attribute.
RECURSIVE Pass1CellsUnchecked(_, _, _, _)
Pass1CellsUnchecked(cells, k, row_namelen, st) ==
    IF k >= Len(cells) THEN [ret |-> 0, cols |-> st.cols, maxlen |-> st.maxlen]
    ELSE LET col == cells[k + 1]
             c1 == IF ULt(st.cols, k) THEN k ELSE st.cols
             cname_len == CnameLen(col.r.s, row_namelen)
             m1 == IF ULt(st.maxlen, cname_len) THEN cname_len ELSE st.maxlen
         IN  Pass1CellsUnchecked(cells, k + 1, row_namelen, [cols |-> c1, maxlen |-> m1])

\* The inner traversal of pass 1 over a row's cells, from position k on:
\* st holds cols and maxlen; ret is what the traversal returns.
RECURSIVE Pass1Cells(_, _, _, _)
Pass1Cells(cells, k, row_namelen, st) ==
    IF k >= Len(cells) THEN [ret |-> 0, cols |-> st.cols, maxlen |-> st.maxlen]
    ELSE LET col == cells[k + 1]
             c1 == IF ULt(st.cols, k) THEN k ELSE st.cols
         IN  IF col.r.null
             THEN [ret |-> 0 - 1, cols |-> c1, maxlen |-> st.maxlen]
             ELSE LET cname_len == CnameLen(col.r.s, row_namelen)
                      m1 == IF ULt(st.maxlen, cname_len) THEN cname_len ELSE st.maxlen
                  IN  Pass1Cells(cells, k + 1, row_namelen, [cols |-> c1, maxlen |-> m1])

\* A block of pass 1 that takes the number of rows met for the largest index.
Pass1RowBlkCounting(st, row, k) ==
    LET r1 == IF ULt(st.rows, k + 1) THEN k + 1 ELSE st.rows
    IN  IF row.r.null
        THEN [ret |-> 0 - 1, rows |-> r1, cols |-> st.cols, maxlen |-> st.maxlen]
        ELSE LET in == Pass1Cells(row.cells, 0, Len(row.r.s),
                                  [cols |-> st.cols, maxlen |-> st.maxlen])
             IN  [ret |-> IF in.ret < 0 THEN 0 - 1 ELSE 1,
                  rows |-> r1, cols |-> in.cols, maxlen |-> in.maxlen]

\* The block of pass 1 on the row with index k.
Pass1RowBlk(st, row, k) ==
    LET r1 == IF ULt(st.rows, k) THEN k ELSE st.rows
    IN  IF row.r.null
        THEN [ret |-> 0 - 1, rows |-> r1, cols |-> st.cols, maxlen |-> st.maxlen]
        ELSE LET in == Pass1Cells(row.cells, 0, Len(row.r.s),
                                  [cols |-> st.cols, maxlen |-> st.maxlen])
                 keep_going == ~VisitStops(in.ret)
             IN  [ret |-> IF keep_going THEN 1 ELSE 0 - 1,
                  rows |-> r1, cols |-> in.cols, maxlen |-> in.maxlen]

\* One step of the traversal of pass 1.
Pass1Row ==
    /\ pc = "pass1"
    /\ ok
    /\ i < Len(pkg.sheet.rows)
    /\ LET out == Pass1RowBlk([rows |-> rows, cols |-> cols, maxlen |-> cname_maxlen],
                              pkg.sheet.rows[i + 1], i)
       IN  /\ rows' = out.rows
           /\ cols' = out.cols
           /\ cname_maxlen' = out.maxlen
           /\ IF VisitStops(out.ret)
              THEN ok' = FALSE /\ i' = i
              ELSE ok' = TRUE /\ i' = i + 1
    /\ UNCHANGED <<pc, ret, acq, rel, restVars, grid, cnames, cj, j, lstr>>
    /\ UNCHANGED apiVars
    /\ UNCHANGED xmlVars

\* After pass 1: give up, or turn the maxima into counts.
Pass1End ==
    /\ pc = "pass1"
    /\ ~ok \/ i = Len(pkg.sheet.rows)
    /\ IF ~ok
       THEN /\ Release({"wsdata"})
            /\ pc' = "sheet_failed"
            /\ UNCHANGED <<rows, cols>>
       ELSE /\ rows' = rows + 1
            /\ cols' = cols + 1
            /\ pc' = "alloc_grid"
            /\ rel' = rel
    /\ UNCHANGED <<ret, acq, ok, restVars, cname_maxlen, grid, cnames, i, cj, j, lstr>>
    /\ UNCHANGED apiVars
    /\ UNCHANGED xmlVars

\* doc->grid = malloc(rows * cols * sizeof(struct xlsx_value))
AllocGrid ==
    /\ pc = "alloc_grid"
    /\ \E got \in BOOLEAN :
         IF got
         THEN /\ grid' = [k \in 1..(rows * cols) |-> UninitCell]
              /\ Acquire("grid")
              /\ pc' = "alloc_cnames"
              /\ rel' = rel
         ELSE /\ Release({"wsdata"})
              /\ pc' = "sheet_failed"
              /\ UNCHANGED <<grid, acq>>
    /\ UNCHANGED <<ret, ok, restVars, rows, cols, cname_maxlen, cnames, i, cj, j, lstr>>
    /\ UNCHANGED apiVars
    /\ UNCHANGED xmlVars

\* cnames = malloc((cname_maxlen + 1) * cols), not initialized.
AllocCnames ==
    /\ pc = "alloc_cnames"
    /\ \E got \in BOOLEAN :
         IF got /\ cname_maxlen + 1 >= 0
         THEN /\ cnames' = [k \in 1..((cname_maxlen + 1) * cols) |-> Uninit]
              /\ Acquire("cnames")
              /\ pc' = IF Len(pkg.sheet.rows) = 0 THEN "sheet_end" ELSE "pass2_row"
              /\ rel' = rel
         ELSE /\ Release({"wsdata", "grid"})
              /\ pc' = "sheet_failed"
              /\ UNCHANGED <<cnames, acq>>
    /\ i' = 0
    /\ cj' = 0
    /\ ok' = TRUE
    /\ UNCHANGED <<ret, restVars, rows, cols, cname_maxlen, grid, j, lstr>>
    /\ UNCHANGED apiVars
    /\ UNCHANGED xmlVars

(***************************************************************************)
(* _xlsx_sheet: pass 2 (materialization).                                  *)
(***************************************************************************)
\* memcpy(&cnames[cname_maxlen * j], cname, cname_len) and the terminator
\* written after it.
WriteName(buf, maxlen, jx, cname, cname_len) ==
    [k \in 1..Len(buf) |->
        LET off == (k - 1) - maxlen * jx
        IN  IF off >= 0 /\ off < cname_len THEN cname[off + 1]
            ELSE IF off = cname_len THEN NUL
            ELSE buf[k]]

\* strncmp(cname, &buf[off], len) = 0, from character p on: "yes", "no", or
\* "maybe" when the answer rests on bytes of the buffer never written.
RECURSIVE SlotCmp(_, _, _, _, _, _)
SlotCmp(buf, off, cname, len, p, may) ==
    IF ~ULt(p, len) THEN (IF may THEN "maybe" ELSE "yes")
    ELSE LET c1 == IF p + 1 <= Len(cname) THEN cname[p + 1] ELSE NUL
             c2 == IF off + p + 1 <= Len(buf) THEN buf[off + p + 1] ELSE Uninit
         IN  IF c2 = Uninit
             THEN (IF c1 = NUL THEN "maybe"
                   ELSE SlotCmp(buf, off, cname, len, p + 1, TRUE))
             ELSE IF c1 # c2 THEN "no"
             ELSE IF c1 = NUL THEN (IF may THEN "maybe" ELSE "yes")
             ELSE SlotCmp(buf, off, cname, len, p + 1, may)

SlotMatch(buf, maxlen, jx, cname, len) == SlotCmp(buf, maxlen * jx, cname, len, 0, FALSE)

\* The column search of a later row: the values j can have after the loop,
\* ncols standing for "not found".
LookupOutcomes(buf, maxlen, ncols, cname, len) ==
    {jx \in 0..ncols :
        /\ \A k \in 0..(jx - 1) : SlotMatch(buf, maxlen, k, cname, len) # "yes"
        /\ jx < ncols => SlotMatch(buf, maxlen, jx, cname, len) # "no"}

\* free(p) of a string made by strdup (0 is the NULL pointer).
FreeStr(heap, id) == IF id = 0 THEN heap ELSE [heap EXCEPT ![id].frees = @ + 1]

\* The loop of _give_up from cell k down to cell 0.
RECURSIVE GiveUp(_, _, _)
GiveUp(g, heap, k) ==
    IF k < 0 THEN heap
    ELSE GiveUp(g,
                IF g[k + 1].type = "LSTR" THEN FreeStr(heap, g[k + 1].str) ELSE heap,
                k - 1)

\* A typing that takes every type value but s and str for a number.
TypeOfAttrStrict(t) ==
    IF t.null THEN "NULL"
    ELSE IF t.s = <<"s">> THEN "STR"
    ELSE IF t.s = <<"s", "t", "r">> THEN "LSTR"
    ELSE "NULL"

\* The type a cell gets from its t attribute.
TypeOfAttr(t) ==
    IF t.null THEN "NULL"
    ELSE IF t.s = <<"s">> THEN "STR"
    ELSE IF t.s = <<"s", "t", "r">> THEN "LSTR"
    ELSE "LSTR"

HasDot(s) == \E k \in 1..Len(s) : s[k] = "."

\* The typing of the cell col into slot: the slot after it, the strdup'd
\* strings after it, and whether _give_up was reached.
TypeCell(slot, col, heap) ==
    LET s0 == [slot EXCEPT !.type = "NULL"]
        val == col.v
    IN  IF val.null \/ Len(val.s) = 0
        THEN [slot |-> s0, heap |-> heap, gave_up |-> FALSE]
        ELSE LET ty == TypeOfAttr(col.t)
             IN  IF ty = "STR"
                 THEN LET conv == strtoll(val.s)
                      IN  IF Unconsumed(val.s, conv)
                          THEN [slot |-> [s0 EXCEPT !.type = "STR"], heap |-> heap,
                                gave_up |-> TRUE]
                          ELSE [slot |-> [s0 EXCEPT !.type = "STR", !.sref = conv.val],
                                heap |-> heap, gave_up |-> FALSE]
                 ELSE IF ty = "LSTR"
                 THEN [slot |-> [s0 EXCEPT !.type = "LSTR", !.str = Len(heap) + 1],
                       heap |-> Append(heap, [text |-> val.s, frees |-> 0]),
                       gave_up |-> FALSE]
                 ELSE IF HasDot(val.s)
                 THEN LET conv == strtod(val.s)
                      IN  [slot |-> [s0 EXCEPT !.type = "FLOAT", !.fval = conv.val],
                           heap |-> heap, gave_up |-> Unconsumed(val.s, conv)]
                 ELSE LET conv == strtoll(val.s)
                      IN  [slot |-> [s0 EXCEPT !.type = "INT", !.ival = conv.val],
                           heap |-> heap, gave_up |-> Unconsumed(val.s, conv)]

\* The block of pass 2 on the cell col at position pos of row r, with jx the
\* column index it resolved to (ncols: none): what it returns, and the grid,
\* the scratch buffer and the strdup'd strings after it.
Pass2CellBlk(g, buf, heap, col, r, pos, jx, ncols, maxlen, name_adjust) ==
    LET cname == col.r.s
        cname_len == CnameLen(cname, name_adjust)
        buf1 == IF r = 0 THEN WriteName(buf, maxlen, jx, cname, cname_len) ELSE buf
    IN  IF r # 0 /\ jx = ncols
        THEN [ret |-> 0 - 1, grid |-> g, cnames |-> buf1,
              lstr |-> GiveUp(g, heap, (r + 1) * ncols - 1)]
        ELSE LET idx == ncols * r + jx
                 t == TypeCell(g[idx + 1], col, heap)
                 g1 == [g EXCEPT ![idx + 1] = t.slot]
             IN  IF t.gave_up
                 THEN [ret |-> 0 - 1, grid |-> g1, cnames |-> buf1,
                       lstr |-> GiveUp(g1, t.heap, (r + 1) * ncols - 1)]
                 ELSE [ret |-> 1, grid |-> g1, cnames |-> buf1, lstr |-> t.heap]

\* The block of pass 2 on row i, before its cells: the row is made empty.
Pass2Row ==
    /\ pc = "pass2_row"
    /\ i < Len(pkg.sheet.rows)
    /\ grid' = [k \in 1..Len(grid) |->
                   IF k - 1 >= cols * i /\ k - 1 < cols * i + cols
                   THEN [grid[k] EXCEPT !.type = "NULL"]
                   ELSE grid[k]]
    /\ cj' = 0
    /\ pc' = "pass2_cell"
    /\ UNCHANGED <<ret, acq, rel, ok, restVars, rows, cols, cname_maxlen, cnames, i, j, lstr>>
    /\ UNCHANGED apiVars
    /\ UNCHANGED xmlVars

\* One step of the inner traversal of pass 2: the block on the next cell.
Pass2Cell ==
    /\ pc = "pass2_cell"
    /\ cj < Len(pkg.sheet.rows[i + 1].cells)
    /\ LET row == pkg.sheet.rows[i + 1]
           col == row.cells[cj + 1]
           name_adjust == Len(row.r.s)
           cname_len == CnameLen(col.r.s, name_adjust)
       IN  \E jj \in (IF i = 0 THEN {cj}
                      ELSE LookupOutcomes(cnames, cname_maxlen, cols, col.r.s, cname_len)) :
              LET out == Pass2CellBlk(grid, cnames, lstr, col, i, cj, jj, cols,
                                      cname_maxlen, name_adjust)
              IN  /\ j' = jj
                  /\ grid' = out.grid
                  /\ cnames' = out.cnames
                  /\ lstr' = out.lstr
                  /\ IF VisitStops(out.ret)
                     THEN ok' = FALSE /\ cj' = cj /\ pc' = "sheet_end"
                     ELSE ok' = TRUE /\ cj' = cj + 1 /\ pc' = pc
    /\ UNCHANGED <<ret, acq, rel, restVars, rows, cols, cname_maxlen, i>>
    /\ UNCHANGED apiVars
    /\ UNCHANGED xmlVars

\* The inner traversal ended without a stop: the row's block returns 1 and the
\* outer traversal goes to the next row, or ends.
Pass2RowEnd ==
    /\ pc = "pass2_cell"
    /\ cj = Len(pkg.sheet.rows[i + 1].cells)
    /\ i' = i + 1
    /\ pc' = IF i + 1 = Len(pkg.sheet.rows) THEN "sheet_end" ELSE "pass2_row"
    /\ UNCHANGED <<ret, acq, rel, ok, restVars, rows, cols, cname_maxlen, grid, cnames,
                   cj, j, lstr>>
    /\ UNCHANGED apiVars
    /\ UNCHANGED xmlVars

\* After pass 2: the scratch buffer and the worksheet tree go in either case,
\* the grid if the pass failed.
SheetEnd ==
    /\ pc = "sheet_end"
    /\ IF ~ok
       THEN Release({"cnames", "wsdata", "grid"}) /\ pc' = "sheet_failed"
       ELSE Release({"cnames", "wsdata"}) /\ pc' = "open_end"
    /\ UNCHANGED <<ret, acq, ok, restVars, sheetVars>>
    /\ UNCHANGED apiVars
    /\ UNCHANGED xmlVars

\* xlsx_doc_at when _xlsx_sheet returned non-zero.
SheetFailed ==
    /\ pc = "sheet_failed"
    /\ Release({"strdata", "base", "rels", "archive", "doc"})
    /\ pc' = "done"
    /\ ret' = "NULL"
    /\ UNCHANGED <<acq, ok, restVars, sheetVars>>
    /\ UNCHANGED apiVars
    /\ UNCHANGED xmlVars

\* xlsx_doc_at's successful end: the handle is returned.
OpenEnd ==
    /\ pc = "open_end"
    /\ Release({"rels", "archive"})
    /\ pc' = "done"
    /\ ret' = "doc"
    /\ UNCHANGED <<acq, ok, restVars, sheetVars>>
    /\ UNCHANGED apiVars
    /\ UNCHANGED xmlVars

\* What a caller's block may return: 0 to go on, any other value to stop.
BlkReturns == {0, 7, 0 - 2}

\* xlsx_row(doc, i): NULL, or the address of grid[i * cols].
xlsx_row(nrows, ncols, ix) ==
    IF ULt(nrows, ix) THEN NullPtr ELSE Ptr(ix * ncols)

\* A caller asks for a row of the open document.
XlsxRow ==
    /\ pc = "done" /\ ret = "doc"
    /\ \E ix \in 0..(rows + 1) :
          /\ arg' = ix
          /\ view' = xlsx_row(rows, cols, ix)
    /\ call' = "row"
    /\ ri' = 0 /\ ci' = 0 /\ seen' = <<>> /\ prev' = <<>> /\ status' = 0
    /\ UNCHANGED <<pc, ret, acq, rel, ok, restVars, sheetVars, wild>>
    /\ UNCHANGED xmlVars

\* The block invocations of the iteration that just returned, when it was a
\* complete one of this kind with this argument.
Before(kind, a) ==
    IF call = kind /\ arg = a /\ status = 0 /\ seen # <<>> THEN seen ELSE <<>>

\* A loop variable that keeps its value from the call before.
FirstRowKept == ri

\* for (size_t i = 0; ...
FirstRow == 0

\* xlsx_foreach_row(doc, blk) is entered: i = 0.
XlsxForeachRow ==
    /\ pc = "done" /\ ret = "doc"
    /\ call' = "foreach_row"
    /\ pc' = "foreach_row"
    /\ prev' = Before("foreach_row", 0)
    /\ arg' = 0 /\ ri' = FirstRow /\ ci' = 0 /\ seen' = <<>> /\ status' = 0 /\ view' = NullPtr
    /\ UNCHANGED <<ret, acq, rel, ok, restVars, sheetVars, wild>>
    /\ UNCHANGED xmlVars

\* xlsx_iter_col(doc, col, blk) enters xlsx_foreach_row with its own block.
XlsxIterCol ==
    /\ pc = "done" /\ ret = "doc"
    /\ \E col \in 0..(cols - 1) : arg' = col /\ prev' = Before("iter_col", col)
    /\ call' = "iter_col"
    /\ pc' = "foreach_row"
    /\ ri' = FirstRow /\ ci' = 0 /\ seen' = <<>> /\ status' = 0 /\ view' = NullPtr
    /\ UNCHANGED <<ret, acq, rel, ok, restVars, sheetVars, wild>>
    /\ UNCHANGED xmlVars

\* xlsx_foreach(doc, blk) enters xlsx_foreach_row with its own block.
XlsxForeach ==
    /\ pc = "done" /\ ret = "doc"
    /\ call' = "foreach"
    /\ pc' = "foreach_row"
    /\ prev' = Before("foreach", 0)
    /\ arg' = 0 /\ ri' = FirstRow /\ ci' = 0 /\ seen' = <<>> /\ status' = 0 /\ view' = NullPtr
    /\ UNCHANGED <<ret, acq, rel, ok, restVars, sheetVars, wild>>
    /\ UNCHANGED xmlVars

\* A loop that never looks at what the block returned.
StopsNever(st) == FALSE

\* if (status) { return status; }
Stops(st) == st # 0

\* The first cell of the row whatever the column.
ColEntryFirst(row, col) == row.off

\* &row[col]
ColEntry(row, col) == row.off + col

\* One turn of the loop of xlsx_foreach_row under xlsx_foreach_row itself or
\* xlsx_iter_col: the block gets the row (or its cell in column arg) and n.
ForeachRowStep ==
    /\ pc = "foreach_row"
    /\ call \in {"foreach_row", "iter_col"}
    /\ ULt(ri, rows)
    /\ LET row == xlsx_row(rows, cols, ri)
           entry == IF call = "iter_col" THEN ColEntry(row, arg) ELSE row.off
       IN  \E st \in BlkReturns :
              /\ seen' = Append(seen, <<entry, ri, st>>)
              /\ IF Stops(st)
                 THEN status' = st /\ pc' = "done" /\ ri' = ri
                 ELSE status' = status /\ pc' = pc /\ ri' = ri + 1
    /\ UNCHANGED <<ret, acq, rel, ok, restVars, sheetVars, call, arg, ci, prev, view, wild>>
    /\ UNCHANGED xmlVars

\* A block that leaves its loop on a stop and reports 0.
RowBlkSwallows(st) == 0

\* What the block of xlsx_foreach returns when the caller's block returned st
\* for a cell: return status.
RowBlkResult(st) == st

\* One turn of the loop over the columns in the block of xlsx_foreach; after
\* the last column the block returns 0 and xlsx_foreach_row goes to the next
\* row.
ForeachCell ==
    /\ pc = "foreach_row"
    /\ call = "foreach"
    /\ ULt(ri, rows)
    /\ ULt(ci, cols)
    /\ LET row == xlsx_row(rows, cols, ri)
       IN  \E st \in BlkReturns :
              /\ seen' = Append(seen, <<ColEntry(row, ci), ri, ci, st>>)
              /\ IF Stops(st)
                 THEN IF Stops(RowBlkResult(st))
                      THEN status' = RowBlkResult(st) /\ pc' = "done" /\ ri' = ri /\ ci' = ci
                      ELSE status' = status /\ pc' = pc /\ ri' = ri + 1 /\ ci' = 0
                 ELSE /\ status' = status
                      /\ pc' = pc
                      /\ IF ULt(ci + 1, cols)
                         THEN ri' = ri /\ ci' = ci + 1
                         ELSE ri' = ri + 1 /\ ci' = 0
    /\ UNCHANGED <<ret, acq, rel, ok, restVars, sheetVars, call, arg, prev, view, wild>>
    /\ UNCHANGED xmlVars

\* The loop of xlsx_foreach_row ends: return 0.
ForeachRowEnd ==
    /\ pc = "foreach_row"
    /\ ~ULt(ri, rows)
    /\ status' = 0
    /\ pc' = "done"
    /\ UNCHANGED <<ret, acq, rel, ok, restVars, sheetVars, call, arg, ri, ci, seen, prev, view, wild>>
    /\ UNCHANGED xmlVars

\* The first loop of xlsx_doc_free from cell k on: the strings after it.
RECURSIVE FreeLstrCells(_, _, _)
FreeLstrCells(g, heap, k) ==
    IF k >= Len(g) THEN heap
    ELSE FreeLstrCells(g,
                       IF g[k + 1].type = "LSTR" THEN FreeStr(heap, g[k + 1].str) ELSE heap,
                       k + 1)

\* A teardown that leaves the strings tree alone.
TeardownKeepsTree == {"base", "grid", "doc"}

\* What xlsx_doc_free releases after the strings of the cells.
TeardownFrees == {"strdata", "base", "grid", "doc"}

\* xlsx_doc_free(doc).  A cell that was never written has an indeterminate
\* type: it may compare equal to XLSX_TYPE_LSTR, and then its str, a pointer
\* that was never set, is passed to free.
XlsxDocFree ==
    /\ pc = "done" /\ ret = "doc"
    /\ lstr' = FreeLstrCells(grid, lstr, 0)
    /\ \E garbage \in SUBSET {k \in 1..Len(grid) : grid[k].type = "UNINIT"} :
          wild' = wild + Cardinality(garbage)
    /\ Release(TeardownFrees)
    /\ pc' = "freed"
    /\ call' = "free"
    /\ arg' = 0 /\ ri' = 0 /\ ci' = 0 /\ seen' = <<>> /\ prev' = <<>> /\ status' = 0
    /\ view' = NullPtr
    /\ UNCHANGED <<ret, acq, ok, restVars, rows, cols, cname_maxlen, grid, cnames, i, cj, j>>
    /\ UNCHANGED xmlVars

Next ==
    \/ ZOpen
    \/ LoadRels
    \/ FindRelationships
    \/ ResolveTargets
    \/ AllocDoc
    \/ StrtabRoot
    \/ StrtabFind
    \/ StrtabCount
    \/ StrtabFallback
    \/ StrtabFill
    \/ StrtabEnd
    \/ StrtabFailed
    \/ SheetRoot
    \/ SheetFind
    \/ Pass1Row
    \/ Pass1End
    \/ AllocGrid
    \/ AllocCnames
    \/ Pass2Row
    \/ Pass2Cell
    \/ Pass2RowEnd
    \/ SheetEnd
    \/ SheetFailed
    \/ OpenEnd
    \/ XlsxRow
    \/ XlsxDocFree

Spec == Init /\ [][Next]_vars

\* Worksheets of whole numbers of every size up to three rows, for the
\* iteration over an opened document.
IterNames == {SubSeq(<<<<"A">>, <<"B">>, <<"A", "B">>>>, 1, k) : k \in 0..3}

IterSheets ==
    {<<>>}
    \cup {<<Row0Of(q)>> : q \in IterNames}
    \cup {<<Row0Of(q), Row1Of(q, "int")>> \o tail : q \in IterNames, tail \in TailRows}

IterDocs == {Package(GoodRels, GoodStrings, SheetPart(rws)) : rws \in IterSheets}

\* The state after construction, for a package of IterDocs.
InitIter ==
    /\ pkg \in IterDocs
    /\ pc = "zopen"
    /\ ret = "none"
    /\ acq = [r \in Res |-> 0]
    /\ rel = [r \in Res |-> 0]
    /\ targets = [worksheet |-> Null, strings |-> Null]
    /\ strtab = [count |-> 0, base |-> Null]
    /\ n = 0
    /\ ok = TRUE
    /\ rows = 0
    /\ cols = 0
    /\ cname_maxlen = 0
    /\ grid = <<>>
    /\ cnames = <<>>
    /\ i = 0
    /\ cj = 0
    /\ j = 0
    /\ lstr = <<>>
    /\ call = "none"
    /\ arg = 0
    /\ ri = 0
    /\ ci = 0
    /\ seen = <<>>
    /\ prev = <<>>
    /\ status = 0
    /\ view = NullPtr
    /\ wild = 0
    /\ tree = <<>>
    /\ blk = <<>>
    /\ errs = <<>>
    /\ names = <<>>
    /\ path = <<>>
    /\ result = 0 - 1
    /\ xlpath = Null

NextIter ==
    \/ Next
    \/ XlsxForeachRow
    \/ XlsxIterCol
    \/ XlsxForeach
    \/ ForeachRowStep
    \/ ForeachCell
    \/ ForeachRowEnd

SpecIter == InitIter /\ [][NextIter]_vars

(***************************************************************************)
(* xml_visit_tree on a tree of nodes 0 (the root) to m; node k > 0 has a   *)
(* parent below k, and the children of a node are in ascending order.      *)
(***************************************************************************)
MaxNodes == 3

XML_MAX_DEPTH == 1000

ParentMaps(m) == {p \in [1..m -> 0..(m - 1)] : \A k \in 1..m : p[k] < k}

RECURSIVE ChildrenOf(_, _, _, _)
ChildrenOf(p, m, x, k) ==
    IF k > m THEN <<>>
    ELSE (IF p[k] = x THEN <<k>> ELSE <<>>) \o ChildrenOf(p, m, x, k + 1)

TreeOf(p, m) == [x \in 0..m |-> ChildrenOf(p, m, x, 1)]

Trees == UNION {{TreeOf(p, m) : p \in ParentMaps(m)} : m \in 0..MaxNodes}

\* The depth a traversal is started with: 0 and 1 as in xlsx.c and
\* xml_dump_tree, and two levels under the maximum.
StartDepths == {0, 1, XML_MAX_DEPTH - 2}

\* xml_visit_tree(root, depth, blk) from child k of root on: the invocations
\* of the block, <<node, depth, n>> each, after those of calls.
RECURSIVE VisitFrom(_, _, _, _, _, _)
VisitFrom(t, b, root, depth, k, calls) ==
    IF k >= Len(t[root]) THEN calls
    ELSE LET child == t[root][k + 1]
             c1 == Append(calls, <<child, depth + 1, k>>)
         IN  IF b[child] # 0 /\ ~(depth + 1 >= XML_MAX_DEPTH)
             THEN VisitFrom(t, b, root, depth, k + 1,
                            VisitFrom(t, b, child, depth + 1, 0, c1))
             ELSE VisitFrom(t, b, root, depth, k + 1, c1)

RECURSIVE PositionsFrom(_, _, _)
PositionsFrom(b, calls, p) ==
    IF p > Len(calls) THEN <<>>
    ELSE (IF b[calls[p][1]] # 0 /\ calls[p][2] >= XML_MAX_DEPTH THEN <<p>> ELSE <<>>)
         \o PositionsFrom(b, calls, p + 1)

\* The reports of "Reached maximum nesting depth": one right after every
\* invocation of the block that returned non-zero at a depth of XML_MAX_DEPTH
\* or more.
DepthErrors(b, calls) == PositionsFrom(b, calls, 1)

\* A caller runs xml_visit_tree on the root.  The function is void: a caller
\* that takes an int from it, as the declaration in xml.h has it, gets a
\* value nothing has set.
XmlVisitTree ==
    /\ pc = "xml_visit_tree"
    /\ seen' = VisitFrom(tree, blk, 0, arg, 0, <<>>)
    /\ errs' = DepthErrors(blk, seen')
    /\ \E r \in BlkReturns : status' = r
    /\ pc' = "xml_visited"
    /\ UNCHANGED <<pkg, ret, acq, rel, ok, targets, strVars, sheetVars,
                   call, arg, ri, ci, prev, view, wild, tree, blk,
                   names, path, result, xlpath>>

InitVisit ==
    /\ tree \in Trees
    /\ blk \in [DOMAIN tree -> BlkReturns]
    /\ arg \in StartDepths
    /\ pc = "xml_visit_tree"
    /\ call = "xml_visit_tree"
    /\ pkg = ScenarioDoc
    /\ ret = "none"
    /\ acq = [r \in Res |-> 0]
    /\ rel = [r \in Res |-> 0]
    /\ targets = [worksheet |-> Null, strings |-> Null]
    /\ strtab = [count |-> 0, base |-> Null]
    /\ n = 0
    /\ ok = TRUE
    /\ rows = 0
    /\ cols = 0
    /\ cname_maxlen = 0
    /\ grid = <<>>
    /\ cnames = <<>>
    /\ i = 0
    /\ cj = 0
    /\ j = 0
    /\ lstr = <<>>
    /\ ri = 0
    /\ ci = 0
    /\ seen = <<>>
    /\ prev = <<>>
    /\ status = 0
    /\ view = NullPtr
    /\ wild = 0
    /\ errs = <<>>
    /\ names = <<>>
    /\ path = <<>>
    /\ result = 0 - 1
    /\ xlpath = Null

NextVisit == XmlVisitTree

SpecVisit == InitVisit /\ [][NextVisit]_vars

(***************************************************************************)
(* xml_find on a tree whose nodes have names.                              *)
(***************************************************************************)
MaxSegments == 3

NoNode == 0 - 1

NodeNames == {<<"a">>, <<"a", "b">>}

Segments == {<<>>, <<"a">>, <<"a", "b">>, <<"b">>}

RECURSIVE JoinPath(_)
JoinPath(segs) ==
    IF Len(segs) = 1 THEN segs[1] ELSE segs[1] \o <<".">> \o JoinPath(Tail(segs))

\* The paths a caller passes: up to MaxSegments segments, empty ones too,
\* with a separator between them.
Paths == {JoinPath(segs) : segs \in UNION {[1..k -> Segments] : k \in 1..MaxSegments}}

\* s[p] of a C string, p from 0; the terminator follows the last character.
CharAt(s, p) == IF p < Len(s) THEN s[p + 1] ELSE NUL

\* strchr(path, '.'): the offset of the first separator, or NoNode for NULL.
RECURSIVE strchr(_, _)
strchr(s, p) ==
    IF p >= Len(s) THEN NoNode ELSE IF s[p + 1] = "." THEN p ELSE strchr(s, p + 1)

\* strncmp(a, b, len) = 0, from character p on.
RECURSIVE strncmpEq(_, _, _, _)
strncmpEq(a, b, len, p) ==
    IF p >= len THEN TRUE
    ELSE IF CharAt(a, p) # CharAt(b, p) THEN FALSE
    ELSE IF CharAt(a, p) = NUL THEN TRUE
    ELSE strncmpEq(a, b, len, p + 1)

\* _xml_find_internal(root, depth, path); FindAmong is its loop over the
\* children of root from child k on.  The path parameter is never NULL.
RECURSIVE xml_find_internal(_, _, _, _, _)
RECURSIVE FindAmong(_, _, _, _, _, _)
xml_find_internal(t, nm, root, depth, pth) ==
    LET next == strchr(pth, 0)
        len == IF next # NoNode THEN next ELSE Len(pth)
    IN  IF ~strncmpEq(pth, nm[root], len, 0) THEN NoNode
        ELSE IF next = NoNode THEN root
        ELSE IF depth + 1 >= XML_MAX_DEPTH THEN NoNode
        ELSE FindAmong(t, nm, root, depth, SubSeq(pth, next + 2, Len(pth)), 0)

FindAmong(t, nm, root, depth, rest, k) ==
    IF k >= Len(t[root]) THEN NoNode
    ELSE LET candidate == xml_find_internal(t, nm, t[root][k + 1], depth + 1, rest)
         IN  IF candidate # NoNode THEN candidate
             ELSE FindAmong(t, nm, root, depth, rest, k + 1)

\* xml_find(root, path)
XmlFind ==
    /\ pc = "xml_find"
    /\ result' = xml_find_internal(tree, names, 0, 1, path)
    /\ pc' = "xml_found"
    /\ UNCHANGED <<pkg, ret, acq, rel, ok, targets, strVars, sheetVars,
                   apiVars, tree, blk, errs, names, path, xlpath>>

InitFind ==
    /\ tree \in Trees
    /\ names \in [DOMAIN tree -> NodeNames]
    /\ path \in Paths
    /\ result = NoNode
    /\ xlpath = Null
    /\ pc = "xml_find"
    /\ call = "xml_find"
    /\ blk = <<>>
    /\ errs = <<>>
    /\ pkg = ScenarioDoc
    /\ ret = "none"
    /\ acq = [r \in Res |-> 0]
    /\ rel = [r \in Res |-> 0]
    /\ targets = [worksheet |-> Null, strings |-> Null]
    /\ strtab = [count |-> 0, base |-> Null]
    /\ n = 0
    /\ ok = TRUE
    /\ rows = 0
    /\ cols = 0
    /\ cname_maxlen = 0
    /\ grid = <<>>
    /\ cnames = <<>>
    /\ i = 0
    /\ cj = 0
    /\ j = 0
    /\ lstr = <<>>
    /\ arg = 0
    /\ ri = 0
    /\ ci = 0
    /\ seen = <<>>
    /\ prev = <<>>
    /\ status = 0
    /\ view = NullPtr
    /\ wild = 0

NextFind == XmlFind

SpecFind == InitFind /\ [][NextFind]_vars

(***************************************************************************)
(* _xlsx_xl_path: a Target made relative to the xl directory.              *)
(***************************************************************************)
MaxTargetLen == 4

TargetChars == {".", "/", "x"}

TargetPaths == SeqsUpTo(TargetChars, MaxTargetLen)

\* strlcpy(dst, src, size): what dst holds afterwards, for size > 0.
strlcpy(src, size) ==
    IF Len(src) < size THEN src ELSE SubSeq(src, 1, size - 1)

\* _xlsx_xl_path(path): the new string, or Null when malloc fails.
xlsx_xl_path(pth, got) ==
    LET len == Len(pth)
    IN  IF ~got THEN Null
        ELSE IF pth = <<".", ".", "/">>
        THEN Str(strlcpy(SubSeq(pth, 4, len), len - 2))
        ELSE Str(<<"x", "l", "/">> \o strlcpy(pth, len + 1))

XlsxXlPath ==
    /\ pc = "xl_path"
    /\ \E got \in BOOLEAN : xlpath' = xlsx_xl_path(path, got)
    /\ pc' = "xl_path_done"
    /\ UNCHANGED <<pkg, ret, acq, rel, ok, targets, strVars, sheetVars,
                   apiVars, tree, blk, errs, names, path, result>>

InitPath ==
    /\ path \in TargetPaths
    /\ xlpath = Null
    /\ pc = "xl_path"
    /\ call = "xl_path"
    /\ tree = <<>>
    /\ names = <<>>
    /\ result = NoNode
    /\ blk = <<>>
    /\ errs = <<>>
    /\ pkg = ScenarioDoc
    /\ ret = "none"
    /\ acq = [r \in Res |-> 0]
    /\ rel = [r \in Res |-> 0]
    /\ targets = [worksheet |-> Null, strings |-> Null]
    /\ strtab = [count |-> 0, base |-> Null]
    /\ n = 0
    /\ ok = TRUE
    /\ rows = 0
    /\ cols = 0
    /\ cname_maxlen = 0
    /\ grid = <<>>
    /\ cnames = <<>>
    /\ i = 0
    /\ cj = 0
    /\ j = 0
    /\ lstr = <<>>
    /\ arg = 0
    /\ ri = 0
    /\ ci = 0
    /\ seen = <<>>
    /\ prev = <<>>
    /\ status = 0
    /\ view = NullPtr
    /\ wild = 0

NextPath == XlsxXlPath

SpecPath == InitPath /\ [][NextPath]_vars

(***************************************************************************)
(* The sizing pass and the allocations after it on worksheets whose        *)
(* references are any strings: a cell's reference need not end in its      *)
(* row's.  The state at the start is that of xlsx_doc_at on entry to pass  *)
(* 1, the strings of GoodStrings built.                                    *)
(***************************************************************************)
MaxRefCells == 2

RowRefs == {<<"1">>, <<"1", "0">>}

CellRefs == {<<"A", "1">>, <<"A">>, <<"A", "B", "1", "0">>}

RefRow(rr, crs) ==
    [r |-> Str(rr),
     cells |-> [k \in 1..Len(crs) |-> [r |-> Str(crs[k]), t |-> KInt.t, v |-> KInt.v]]]

RefRows == {RefRow(rr, crs) : rr \in RowRefs, crs \in SeqsUpTo(CellRefs, MaxRefCells)}

RefSheets == {<<a>> : a \in RefRows} \cup {<<a, b>> : a \in RefRows, b \in RefRows}

RefDocs == {Package(GoodRels, GoodStrings, SheetPart(rws)) : rws \in RefSheets}

InitRefs ==
    /\ pkg \in RefDocs
    /\ pc = "pass1"
    /\ ret = "none"
    /\ acq = [r \in Res |-> IF r \in {"grid", "cnames"} THEN 0 ELSE 1]
    /\ rel = [r \in Res |-> 0]
    /\ targets = [worksheet |-> Str(WsTarget), strings |-> Str(SsTarget)]
    /\ strtab = [count |-> 2, base |-> Str(GoodStrings.si)]
    /\ n = 2
    /\ ok = TRUE
    /\ rows = 0
    /\ cols = 0
    /\ cname_maxlen = 0
    /\ grid = <<>>
    /\ cnames = <<>>
    /\ i = 0
    /\ cj = 0
    /\ j = 0
    /\ lstr = <<>>
    /\ call = "none"
    /\ arg = 0
    /\ ri = 0
    /\ ci = 0
    /\ seen = <<>>
    /\ prev = <<>>
    /\ status = 0
    /\ view = NullPtr
    /\ wild = 0
    /\ tree = <<>>
    /\ blk = <<>>
    /\ errs = <<>>
    /\ names = <<>>
    /\ path = <<>>
    /\ result = NoNode
    /\ xlpath = Null

NextRefs == Pass1Row \/ Pass1End \/ AllocGrid \/ AllocCnames \/ SheetFailed

SpecRefs == InitRefs /\ [][NextRefs]_vars





(***************************************************************************)
(* What the claims speak of.                                               *)
(***************************************************************************)
Opened == pc = "done" /\ ret = "doc"
Failed == pc = "done" /\ ret = "NULL"

SrcRows == pkg.sheet.rows

\* The column name of a cell: its reference without the row's reference.
DerivedName(row, col) == SubSeq(col.r.s, 1, Len(col.r.s) - Len(row.r.s))

\* The names row 0 declares, by position.
Row0Declared ==
    [c \in 1..Len(SrcRows[1].cells) |-> DerivedName(SrcRows[1], SrcRows[1].cells[c])]

\* The grid cell of row r, column c (both from 0).
GridCell(r, c) == grid[cols * r + c + 1]

HasValue(col) == ~col.v.null /\ Len(col.v.s) > 0
ValueTypes == {"STR", "INT", "FLOAT", "LSTR"}

\* The running maximum of the indices 0 .. count - 1, which starts at 0.
MaxSeen(count) == IF count = 0 THEN 0 ELSE count - 1

RECURSIVE MaxCells(_, _)
MaxCells(rws, k) ==
    IF k > Len(rws) THEN 0
    ELSE LET rest == MaxCells(rws, k + 1)
         IN  IF Len(rws[k].cells) > rest THEN Len(rws[k].cells) ELSE rest

\* The slot holds the value of the source cell col.
Shows(slot, col) ==
    LET want == TypeCell(UninitCell, col, <<>>).slot
    IN  /\ slot.type = want.type
        /\ want.type = "STR" => slot.sref = want.sref
        /\ want.type = "INT" => slot.ival = want.ival
        /\ want.type = "FLOAT" => slot.fval = want.fval
        /\ want.type = "LSTR" =>
              slot.str \in 1..Len(lstr) /\ lstr[slot.str].text = col.v.s

(***************************************************************************)
(* C1: whenever xlsx_doc_at fails it returns no handle, and every resource *)
(* it had acquired (archive, trees, index buffer, grid, scratch buffer,    *)
(* literal strings, handle) has been released exactly once: none leaked,   *)
(* none released twice.                                                    *)
(***************************************************************************)
C1_FailedOpenReleasesAll ==
    Failed =>
       /\ \A r \in Res : acq[r] <= 1 /\ rel[r] = acq[r]
       /\ \A k \in 1..Len(lstr) : lstr[k].frees = 1

(***************************************************************************)
(* C2: after a successful open the grid holds exactly rows * cols cells in *)
(* row-major order, every row has cols cells, rows is the maximum row      *)
(* index of pass 1 plus one and cols the maximum cell position of any row  *)
(* plus one (both maxima start at 0).  Row-major: the cells of row 0 are   *)
(* at positions 0 .. of the grid, and a value in the r-th run of cols      *)
(* cells comes from source row r.                                          *)
(***************************************************************************)
C2_GridDimensions ==
    Opened =>
       /\ Len(grid) = rows * cols
       /\ rows = MaxSeen(Len(SrcRows)) + 1
       /\ cols = MaxSeen(MaxCells(SrcRows, 1)) + 1
       /\ \A r \in 0..(Len(SrcRows) - 1) :
             /\ cols * r + cols <= Len(grid)
             /\ (\E c \in 0..(cols - 1) : GridCell(r, c).type \in ValueTypes)
                   => \E p \in 1..Len(SrcRows[r + 1].cells) : HasValue(SrcRows[r + 1].cells[p])
       /\ Len(SrcRows) > 0 =>
             \A p \in 1..Len(SrcRows[1].cells) : Shows(grid[p], SrcRows[1].cells[p])

C2_Witness ==
    /\ Opened
    /\ Len(SrcRows) = 3
    /\ Len(SrcRows[2].cells) > Len(SrcRows[1].cells)
    /\ cols = 2
    /\ Len(grid) = 6

(***************************************************************************)
(* C3: after a successful open, each cell of a later row (index > 0) is    *)
(* stored at the grid column that its derived name has in row 0, whatever  *)
(* its position in its own row, and every column of row 0 that the row     *)
(* omits is empty.  (Of cells of one row that repeat a name, the last is   *)
(* the one looked at.)                                                     *)
(***************************************************************************)
C3_LaterRowsStoredByName ==
    Opened =>
       \A r \in 1..(Len(SrcRows) - 1) :
          LET row == SrcRows[r + 1]
              name(p) == DerivedName(row, row.cells[p])
          IN  /\ \A p \in 1..Len(row.cells) :
                    \A c \in 1..Len(Row0Declared) :
                       (/\ Row0Declared[c] = name(p)
                        /\ \A q \in (p + 1)..Len(row.cells) : name(q) # name(p))
                          => Shows(GridCell(r, c - 1), row.cells[p])
              /\ \A c \in 1..Len(Row0Declared) :
                    (\A p \in 1..Len(row.cells) : name(p) # Row0Declared[c])
                       => GridCell(r, c - 1).type = "NULL"

(***************************************************************************)
(* C4: if a row with index > 0 holds a cell whose derived name is not      *)
(* exactly the derived name of a row-0 column, the open fails; so, after a *)
(* successful open, every cell of a later row has the name of a row-0      *)
(* column.                                                                 *)
(***************************************************************************)
C4_UnknownColumnFails ==
    Opened =>
       \A r \in 1..(Len(SrcRows) - 1) :
          \A p \in 1..Len(SrcRows[r + 1].cells) :
             \E c \in 1..Len(Row0Declared) :
                Row0Declared[c] = DerivedName(SrcRows[r + 1], SrcRows[r + 1].cells[p])

(***************************************************************************)
(* C5: after a successful open every cell of type string-table reference   *)
(* holds an index i with 0 <= i < strtab.count.                            *)
(***************************************************************************)
C5_StringRefsInRange ==
    Opened =>
       \A k \in 1..Len(grid) :
          grid[k].type = "STR" => ULt(grid[k].sref, strtab.count)

(***************************************************************************)
(* C6: in the fill pass a child whose index n is at or beyond the count    *)
(* aborts the construction: the fill never goes past such a child (so no   *)
(* slot at or beyond count is written), and when the strings root has more *)
(* children than the table has slots, xlsx_doc_at returns no handle with   *)
(* the index buffer and the strings tree each released exactly once.       *)
(***************************************************************************)
C6_FillBeyondCountAborts ==
    /\ (pc = "strtab_fill" /\ ~strtab.base.null) =>
          /\ ~ULt(strtab.count, n)
          /\ Len(strtab.base.s) = strtab.count
    /\ (pc = "done" /\ ~strtab.base.null /\ ULt(strtab.count, Len(pkg.strings.si))) =>
          /\ ret = "NULL"
          /\ acq["base"] = 1 /\ rel["base"] = 1
          /\ acq["strdata"] = 1 /\ rel["strdata"] = 1

C6_Witness ==
    /\ Failed
    /\ ~ok
    /\ n = 1
    /\ n < Len(pkg.strings.si)
    /\ ~pkg.strings.si[n + 1].null
    /\ strtab.count = 1
    /\ ~strtab.base.s[1].null
    /\ rel["base"] = 1

(***************************************************************************)
(* C7: a child of the strings root without a si.t.text node is not fatal:  *)
(* the fill pass stops only at a child whose index is at or beyond the     *)
(* count.                                                                  *)
(***************************************************************************)
C7_MissingTextNotFatal ==
    (pc = "strtab_fill" /\ ~ok) => ~ULt(n, strtab.count)

(***************************************************************************)
(* C8: the size of the string table.                                       *)
(***************************************************************************)
\* The count attribute is a run of decimal digits (the forms of the inputs).
CountIsNumber(count) ==
    /\ ~count.null
    /\ Len(count.s) > 0
    /\ \A k \in 1..Len(count.s) : count.s[k] \in Digits

Declared(count) == ScanDigits(count.s, 1, 0).val

C8_Sizing ==
    /\ (pc = "strtab_fallback" /\ ~strtab.base.null) =>
          /\ CountIsNumber(pkg.strings.count)
          /\ strtab.count = Declared(pkg.strings.count)
          /\ Len(strtab.base.s) = strtab.count
    /\ (pc = "strtab_fill") =>
          /\ Len(strtab.base.s) = strtab.count
          /\ \/ /\ CountIsNumber(pkg.strings.count)
                /\ strtab.count = Declared(pkg.strings.count)
             \/ strtab.count = Len(pkg.strings.si)
    /\ (pc \in {"sheet_root", "open_end"} \/ Opened) =>
          \A k \in 1..Len(pkg.strings.si) :
             /\ k <= strtab.count
             /\ strtab.base.s[k] = pkg.strings.si[k]
             /\ ~strtab.base.s[k].null

C8_SizeKept ==
    [][(pc = "strtab_fallback" /\ ~strtab.base.null) => strtab' = strtab]_vars

LastCell == SrcRows[i + 1].cells[cj]
NextCell == SrcRows[i + 1].cells[cj + 1]
IsAttr(t, s) == ~t.null /\ t.s = s

WholeTextConverts(col) ==
    IF col.t.null /\ (\E k \in 1..Len(col.v.s) : col.v.s[k] = ".")
    THEN strtod(col.v.s).end = Len(col.v.s) + 1
    ELSE strtoll(col.v.s).end = Len(col.v.s) + 1

C10_NumericInference ==
    /\ (pc = "pass2_cell" /\ cj >= 1 /\ j < cols /\ HasValue(LastCell) /\ LastCell.t.null) =>
          /\ GridCell(i, j).type = "FLOAT" <=> (\E k \in 1..Len(LastCell.v.s) : LastCell.v.s[k] = ".")
          /\ GridCell(i, j).type = "INT" <=> (\A k \in 1..Len(LastCell.v.s) : LastCell.v.s[k] # ".")
          /\ LastCell.v.s = <<"4", "2">> => GridCell(i, j).ival = 42
          /\ LastCell.v.s = <<"4", ".", "2">> =>
                GridCell(i, j).fval = [neg |-> FALSE, ip |-> 4, fp |-> 2, fd |-> 1]
          /\ LastCell.v.s = <<"4", "2", ".">> =>
                GridCell(i, j).fval = [neg |-> FALSE, ip |-> 42, fp |-> 0, fd |-> 0]
    /\ Opened =>
          \A r \in 1..Len(SrcRows) :
             \A p \in 1..Len(SrcRows[r].cells) :
                LET col == SrcRows[r].cells[p]
                IN  (HasValue(col) /\ (col.t.null \/ IsAttr(col.t, <<"s">>)))
                       => WholeTextConverts(col)

C10_Witness ==
    /\ Failed
    /\ ~ok
    /\ i = 0
    /\ cj = 1
    /\ NextCell.t.null
    /\ NextCell.v.s = <<"4", "a">>
    /\ GridCell(0, 1).type = "INT"

(***************************************************************************)
(* C11: in every opened document all rows x cols cells of the grid were    *)
(* initialized before the handle is returned: no cell still holds what     *)
(* malloc left there, and a row without source cells is all empty.  This   *)
(* includes the 1 x 1 grid of a worksheet without rows.                    *)
(***************************************************************************)
C11_AllCellsInitialized ==
    Opened =>
       /\ \A k \in 1..Len(grid) : grid[k].type # "UNINIT"
       /\ \A r \in 0..(rows - 1) :
             (r >= Len(SrcRows) \/ Len(SrcRows[r + 1].cells) = 0) =>
                \A c \in 0..(cols - 1) : GridCell(r, c).type = "NULL"

(***************************************************************************)
(* C12: when a fatal condition stops pass 2 at a cell of row i, every      *)
(* literal string copied so far has been freed exactly once, nothing else  *)
(* has been freed, no further cell or row is visited, the grid and the     *)
(* scratch buffer are each freed exactly once and the open fails.          *)
(***************************************************************************)
Pass2Failed == ~ok /\ acq["cnames"] = 1 /\ pc \in {"sheet_failed", "done"}

C12_RollbackFreesOnce ==
    Pass2Failed =>
       /\ \A h \in 1..Len(lstr) : lstr[h].frees = 1
       /\ acq["grid"] = 1 /\ rel["grid"] = 1
       /\ rel["cnames"] = 1
       /\ i < Len(SrcRows) /\ cj < Len(SrcRows[i + 1].cells)
       /\ pc = "done" => ret = "NULL"

(***************************************************************************)
(* C13: after a successful open and one xlsx_doc_free every resource the   *)
(* open acquired has been released exactly once (archive, relationships    *)
(* tree, worksheet tree and scratch buffer by the end of the open; grid,   *)
(* string index buffer, strings tree and handle by the teardown), every    *)
(* literal string copied for a cell has been freed exactly once, and       *)
(* nothing else has been passed to free.                                   *)
(***************************************************************************)
C13_TeardownReleasesAll ==
    (pc = "freed") =>
       /\ \A r \in Res : acq[r] = 1 /\ rel[r] = 1
       /\ \A h \in 1..Len(lstr) : lstr[h].frees = 1
       /\ wild = 0

(***************************************************************************)
(* C14: while a handle is open, from the end of the strings build until    *)
(* xlsx_doc_free, the strings tree is not released (not by the worksheet   *)
(* build, not by the end of the open), and every entry of the table is the *)
(* text of a node of that tree; the teardown releases the tree, once.      *)
(***************************************************************************)
C14_StringsTreeOutlivesHandle ==
    /\ (pc \in {"sheet_root", "sheet_find", "pass1", "alloc_grid", "alloc_cnames",
                 "pass2_row", "pass2_cell", "sheet_end", "open_end", "foreach_row"}
           \/ Opened) =>
          /\ acq["strdata"] = 1 /\ rel["strdata"] = 0
          /\ rel["base"] = 0
          /\ \A k \in 1..Len(strtab.base.s) :
                ~strtab.base.s[k].null =>
                   /\ k <= Len(pkg.strings.si)
                   /\ strtab.base.s[k] = pkg.strings.si[k]
    /\ (pc = "freed") => rel["strdata"] = 1

C14_Witness ==
    /\ pc = "freed"
    /\ rel["strdata"] = 1
    /\ strtab.count = 2
    /\ ~strtab.base.s[2].null
    /\ \E k \in 1..Len(grid) : grid[k].type = "STR"

(***************************************************************************)
(* C15: xlsx_row(doc, i) returns the address of the cols cells of row i    *)
(* when 0 <= i < rows and NULL for every i >= rows, i = rows included; it  *)
(* never returns an address whose cols cells are not cells of the grid.    *)
(***************************************************************************)
C15_RowBoundsChecked ==
    (call = "row") =>
       /\ arg < rows => view = Ptr(arg * cols)
       /\ arg >= rows => view.null
       /\ ~view.null => view.off + cols <= Len(grid)

(***************************************************************************)
(* C16: xlsx_foreach_row calls the block on rows 0, 1, ... in ascending    *)
(* order, each at most once, with the row's address and its index as n; it *)
(* stops at the first non-zero return, calls the block on no later row and *)
(* returns exactly that value; if the block returns 0 for every row it     *)
(* visits all rows and returns 0.                                          *)
(***************************************************************************)
Running == pc = "foreach_row"
Returned == pc = "done" /\ ret = "doc"
Last(sq) == sq[Len(sq)]

C16_ForeachRowContract ==
    (call = "foreach_row" /\ (Running \/ Returned)) =>
       /\ Len(seen) <= rows
       /\ \A k \in 1..Len(seen) : seen[k][1] = (k - 1) * cols /\ seen[k][2] = k - 1
       /\ \A k \in 1..(Len(seen) - 1) : seen[k][3] = 0
       /\ Running => ri = Len(seen) /\ \A k \in 1..Len(seen) : seen[k][3] = 0
       /\ (Returned /\ status = 0) =>
             Len(seen) = rows /\ \A k \in 1..Len(seen) : seen[k][3] = 0
       /\ (Returned /\ status # 0) => status = Last(seen)[3]

C16_Witness ==
    /\ call = "foreach_row" /\ Returned
    /\ rows = 3
    /\ Len(seen) = 2
    /\ status = 7

(***************************************************************************)
(* C17: xlsx_foreach calls the block on the cells in row-major order (the  *)
(* k-th call on row k / cols, column k % cols, with the address of that    *)
(* cell); at the first non-zero return it visits no further cell of that   *)
(* row or of a later row and returns exactly that value; otherwise it      *)
(* visits all rows * cols cells and returns 0.                             *)
(***************************************************************************)
C17_ForeachContract ==
    (call = "foreach" /\ (Running \/ Returned)) =>
       /\ Len(seen) <= rows * cols
       /\ \A k \in 1..Len(seen) :
             /\ seen[k][2] = (k - 1) \div cols
             /\ seen[k][3] = (k - 1) % cols
             /\ seen[k][1] = seen[k][2] * cols + seen[k][3]
       /\ \A k \in 1..(Len(seen) - 1) : seen[k][4] = 0
       /\ Running => \A k \in 1..Len(seen) : seen[k][4] = 0
       /\ (Returned /\ status = 0) =>
             Len(seen) = rows * cols /\ \A k \in 1..Len(seen) : seen[k][4] = 0
       /\ (Returned /\ status # 0) => status = Last(seen)[4]

C17_Witness ==
    /\ call = "foreach" /\ Returned
    /\ rows = 3 /\ cols = 2
    /\ Len(seen) = 3
    /\ status = 0 - 2

(***************************************************************************)
(* C18: for col < cols, xlsx_iter_col calls the block on the cells         *)
(* grid[n][col] for n = 0, 1, ... in ascending order with n as the row     *)
(* number, stops at the first non-zero return and returns that value, and  *)
(* returns 0 after all rows entries of the column.                         *)
(***************************************************************************)
C18_IterColContract ==
    (call = "iter_col" /\ (Running \/ Returned)) =>
       /\ arg < cols
       /\ Len(seen) <= rows
       /\ \A k \in 1..Len(seen) :
             /\ seen[k][2] = k - 1
             /\ seen[k][1] = (k - 1) * cols + arg
             /\ seen[k][1] < Len(grid)
       /\ \A k \in 1..(Len(seen) - 1) : seen[k][3] = 0
       /\ (Returned /\ status = 0) =>
             Len(seen) = rows /\ \A k \in 1..Len(seen) : seen[k][3] = 0
       /\ (Returned /\ status # 0) => status = Last(seen)[3]

C18_Witness ==
    /\ call = "iter_col" /\ Returned
    /\ arg = 1
    /\ rows = 3 /\ cols = 3
    /\ Len(seen) = 3
    /\ status = 0

(***************************************************************************)
(* C19: the operations on an open handle leave the grid, the dimensions    *)
(* and the string table as they are, and a complete iteration that follows *)
(* a complete iteration of the same kind on the same handle delivers the   *)
(* same sequence of coordinates and of cell values.                        *)
(***************************************************************************)
\* What the block was given: the cell's place, the indices, the cell.
Delivered(sq) ==
    [k \in 1..Len(sq) |-> <<SubSeq(sq[k], 1, Len(sq[k]) - 1), grid[sq[k][1] + 1]>>]

C19_SameSequence ==
    (call \in {"foreach_row", "iter_col", "foreach"} /\ Returned /\ status = 0
       /\ prev # <<>>) =>
          Delivered(seen) = Delivered(prev)

C19_HandleUnchanged ==
    [][(pc \in {"done", "foreach_row"} /\ ret = "doc" /\ pc' # "freed")
          => UNCHANGED <<grid, rows, cols, strtab, lstr>>]_vars

C19_IterationReadOnly == []C19_SameSequence /\ C19_HandleUnchanged

C19_Witness ==
    /\ call = "foreach" /\ Returned /\ status = 0
    /\ rows = 3 /\ cols = 2
    /\ Len(prev) = 6
    /\ Len(seen) = 6
    /\ grid[1].type = "LSTR" /\ grid[2].type = "INT"

(***************************************************************************)
(* The traversal the header declares: the invocations a three-way          *)
(* traversal makes from child k of root on, and the negative value that    *)
(* stopped it (0 when none did).  A stop ends every level at once.         *)
(***************************************************************************)
RECURSIVE ThreeWay(_, _, _, _, _, _)
ThreeWay(t, b, root, depth, k, calls) ==
    IF k >= Len(t[root]) THEN [calls |-> calls, stop |-> 0]
    ELSE LET child == t[root][k + 1]
             c1 == Append(calls, <<child, depth + 1, k>>)
         IN  IF b[child] < 0 THEN [calls |-> c1, stop |-> b[child]]
             ELSE IF b[child] > 0 \/ depth + 1 >= XML_MAX_DEPTH
             THEN ThreeWay(t, b, root, depth, k + 1, c1)
             ELSE LET sub == ThreeWay(t, b, child, depth + 1, 0, c1)
                  IN  IF sub.stop < 0 THEN sub
                      ELSE ThreeWay(t, b, root, depth, k + 1, sub.calls)

Visited == pc = "xml_visited"

\* C20: xml_visit_tree(root, depth, blk) calls blk(child, depth + 1, n) on
\* the children of root in order, n the zero-based position among the
\* siblings; a negative result of the block ends the traversal on every
\* level and is what xml_visit_tree returns, a positive one skips the
\* child's subtree and goes on with the next sibling, zero descends into the
\* child's subtree before the next sibling, and in these two cases
\* xml_visit_tree returns 0.
C20_VisitContract ==
    Visited =>
        /\ seen = ThreeWay(tree, blk, 0, arg, 0, <<>>).calls
        /\ status = ThreeWay(tree, blk, 0, arg, 0, <<>>).stop

\* C21: when xml_visit_tree would descend past the maximum nesting depth the
\* condition is reported once and taken for a stop: the whole traversal ends
\* there, no sibling and no node of any level is visited after the report,
\* and the report is not made again for later siblings.
C21_DepthErrorStops ==
    Visited => /\ Len(errs) <= 1
               /\ errs # <<>> => Len(seen) = errs[1]

(***************************************************************************)
(* The path of a search as its segments, and the search by whole names.    *)
(***************************************************************************)
RECURSIVE SplitPath(_, _)
SplitPath(s, cur) ==
    IF s = <<>> THEN <<cur>>
    ELSE IF Head(s) = "." THEN <<cur>> \o SplitPath(Tail(s), <<>>)
    ELSE SplitPath(Tail(s), Append(cur, Head(s)))

Malformed(p) == \E k \in 1..Len(SplitPath(p, <<>>)) : SplitPath(p, <<>>)[k] = <<>>

\* The first node, depth first in document order, that ends a chain of nodes
\* named segs[1], segs[2], ... from node x on; FirstChain is the search among
\* the children of x from child k on.
RECURSIVE ChainFrom(_, _, _, _)
RECURSIVE FirstChain(_, _, _, _, _)
ChainFrom(t, nm, x, segs) ==
    IF nm[x] # segs[1] THEN NoNode
    ELSE IF Len(segs) = 1 THEN x
    ELSE FirstChain(t, nm, x, Tail(segs), 0)

FirstChain(t, nm, x, segs, k) ==
    IF k >= Len(t[x]) THEN NoNode
    ELSE LET c == ChainFrom(t, nm, t[x][k + 1], segs)
         IN  IF c # NoNode THEN c ELSE FirstChain(t, nm, x, segs, k + 1)

FoundDone == pc = "xml_found"

\* C22: for a path of non-empty segments xml_find(node, path) returns the
\* first node, depth first in document order, that ends a chain in which the
\* first segment is the whole name of node and every following segment is
\* the whole name of a child of the node before it (a prefix of a name is no
\* match); it goes back to later siblings when an earlier matching child has
\* no matching descendant, and returns no node when there is no such chain.
C22_FindByWholeNames ==
    (FoundDone /\ ~Malformed(path)) =>
        result = ChainFrom(tree, names, 0, SplitPath(path, <<>>))

\* C23: xml_find returns no node for a path with an empty segment: the empty
\* path, a path that begins or ends with a separator, a path with two
\* separators in a row.
C23_MalformedPathNoMatch ==
    (FoundDone /\ Malformed(path)) => result = NoNode

(***************************************************************************)
(* The relationships part as a reader of the package sees it.              *)
(***************************************************************************)
RelEntries == pkg.rels.entries

AttrVal(e, name) ==
    IF \E k \in 1..Len(e.attrs) : e.attrs[k].name = name
    THEN e.attrs[CHOOSE k \in 1..Len(e.attrs) : e.attrs[k].name = name].val
    ELSE Null

\* The value has a "/" and seg is what follows its last one.
EndsInSegment(val, seg) ==
    \E p \in 1..Len(val) :
        /\ val[p] = "/"
        /\ \A q \in (p + 1)..Len(val) : val[q] # "/"
        /\ SubSeq(val, p + 1, Len(val)) = seg

IsRelationship(e) == e.name = "Relationship"

\* The Relationship entries of the given type that have a Target.
EntriesOfType(seg) ==
    {k \in 1..Len(RelEntries) :
        /\ IsRelationship(RelEntries[k])
        /\ ~AttrVal(RelEntries[k], "Type").null
        /\ EndsInSegment(AttrVal(RelEntries[k], "Type").s, seg)
        /\ ~AttrVal(RelEntries[k], "Target").null}

TargetsOfType(seg) == {AttrVal(RelEntries[k], "Target") : k \in EntriesOfType(seg)}

\* The traversal of the relationships has been made.
Resolved ==
    /\ pkg.archive /\ pkg.rels.present /\ pkg.rels.root
    /\ pc \notin {"zopen", "rels", "rdata", "resolve"}

\* C24: the resolver classifies each Relationship entry by what follows the
\* last "/" of its Type attribute: the worksheet path is the Target of an
\* entry whose last segment is "worksheet" and there is one whenever there is
\* such an entry, likewise the strings path for "sharedStrings"; when one of
\* the two is missing after the traversal the open fails with no handle.
C24_ClassifiedByLastSegment ==
    Resolved =>
        /\ ~targets.worksheet.null => targets.worksheet \in TargetsOfType(WORKSHEET)
        /\ ~targets.strings.null => targets.strings \in TargetsOfType(SHARED_STRINGS)
        /\ EntriesOfType(WORKSHEET) # {} => ~targets.worksheet.null
        /\ EntriesOfType(SHARED_STRINGS) # {} => ~targets.strings.null
        /\ (targets.worksheet.null \/ targets.strings.null) => (pc = "done" /\ ret = "NULL")

\* C28: the resolver finds both targets whenever the relationships part has a
\* Relationship entry of each of the two types, whatever their order and
\* whatever other children (entries of other types, entries without Type or
\* Target, nodes that are no Relationship) come before or between them.
C28_BothFoundInAnyOrder ==
    (Resolved /\ EntriesOfType(WORKSHEET) # {} /\ EntriesOfType(SHARED_STRINGS) # {}) =>
        (~targets.worksheet.null /\ ~targets.strings.null)

(***************************************************************************)
(* Target paths.                                                           *)
(***************************************************************************)
BeginsWithParent(p) == Len(p) >= 3 /\ SubSeq(p, 1, 3) = <<".", ".", "/">>

PathMade == pc = "xl_path_done" /\ ~xlpath.null

\* C25: a target path that begins with "../" is not put under xl/: the
\* result is the path without its leading "../"; every other target path p
\* becomes "xl/" followed by p.
C25_TargetNormalized ==
    PathMade =>
        xlpath.s = IF BeginsWithParent(path) THEN SubSeq(path, 4, Len(path))
                   ELSE <<"x", "l", "/">> \o path

(***************************************************************************)
(* Reference attributes of the worksheet.                                  *)
(***************************************************************************)
RowLacksRef(k) ==
    \/ SrcRows[k].r.null
    \/ \E c \in 1..Len(SrcRows[k].cells) : SrcRows[k].cells[c].r.null

MissingRef == \E k \in 1..Len(SrcRows) : RowLacksRef(k)

FirstBadRow == CHOOSE k \in 1..Len(SrcRows) : RowLacksRef(k) /\ \A q \in 1..(k - 1) : ~RowLacksRef(q)

InPass2 == pc \in {"pass2_row", "pass2_cell"}

\* C26: in pass 1 a row without its r attribute, or a cell without its r
\* attribute, stops the pass at that row and makes the worksheet build fail
\* before the grid or the scratch buffer is allocated, so the open returns no
\* handle; pass 2 therefore runs only on worksheets in which every row and
\* every cell has its r attribute.
C26_MissingRefFailsInPass1 ==
    /\ MissingRef =>
          /\ acq["grid"] = 0 /\ acq["cnames"] = 0
          /\ pc \notin {"alloc_grid", "alloc_cnames", "sheet_end", "open_end"}
          /\ pc = "pass1" => i <= FirstBadRow - 1
          /\ (pc = "pass1" /\ ~ok) => i = FirstBadRow - 1
          /\ ret # "doc"
    /\ InPass2 => ~MissingRef

C26_Witness ==
    /\ pc = "done" /\ ret = "NULL"
    /\ acq["wsdata"] = 1 /\ ~ok
    /\ ~SrcRows[1].r.null
    /\ \E c \in 1..Len(SrcRows[1].cells) : SrcRows[1].cells[c].r.null

(***************************************************************************)
(* The scratch buffer of column names after row 0.                         *)
(***************************************************************************)
\* Pass 2 is past the last cell of row 0 and the buffer is still allocated.
Row0Written ==
    /\ pc \in {"pass2_row", "pass2_cell"}
    /\ ok
    /\ i >= 1 \/ (pc = "pass2_cell" /\ cj = Len(SrcRows[1].cells))

\* Slot c (from 0) holds the characters of name and a terminator after them.
SlotHoldsName(c, name) ==
    /\ cname_maxlen * c + Len(name) + 1 <= Len(cnames)
    /\ \A p \in 1..Len(name) : cnames[cname_maxlen * c + p] = name[p]
    /\ cnames[cname_maxlen * c + Len(name) + 1] = NUL

\* C27: once row 0 has been processed in pass 2, every scratch slot below the
\* number of row-0 cells still holds the derived name of row 0's cell of that
\* position, terminated: the slots of different columns do not overlap,
\* writing a later slot alters neither the name nor the terminator of an
\* earlier one, and every write is inside the cols * (longest name + 1)
\* characters allocated.
C27_ScratchSlotsKeepNames ==
    Row0Written =>
        /\ Len(cnames) = cols * (cname_maxlen + 1)
        /\ \A c \in 1..Len(Row0Declared) : SlotHoldsName(c - 1, Row0Declared[c])

\* The grid cells of type literal string that hold the string h.
HoldersOf(h) == {k \in 1..Len(grid) : grid[k].type = "LSTR" /\ grid[k].str = h}

\* C29: every literal string duplicated during the open is at every later
\* point either held by exactly one grid cell of type literal string or
\* already freed; when two cells of a row resolve to the same grid column (a
\* repeated reference, or two names that match the same slot) the overwrite
\* of the slot does not drop a duplicated string without freeing it.
C29_NoStringDropped ==
    \A h \in 1..Len(lstr) : lstr[h].frees >= 1 \/ Cardinality(HoldersOf(h)) = 1

(***************************************************************************)
(* The lengths of the derived column names.                                *)
(***************************************************************************)
\* The rows (from 1) whose cells pass 1 has been through.
SizedRows ==
    IF pc = "pass1" THEN 1..i
    ELSE IF pc \in {"alloc_grid", "alloc_cnames", "pass2_row", "pass2_cell",
                    "sheet_end", "open_end"}
    THEN 1..Len(SrcRows)
    ELSE {}

\* C30: for every cell processed in pass 1 and pass 2 the length of the
\* derived column name, the length of the cell's reference less that of its
\* row's reference in unsigned arithmetic, is a true difference that is not
\* negative and not above the greatest name length tracked: a cell whose
\* reference is shorter than its row's never yields a wrapped-around length
\* that is then a bound of a copy or a comparison.
C30_NameLengthNotWrapped ==
    \A k \in SizedRows : \A c \in 1..Len(SrcRows[k].cells) :
        (~SrcRows[k].r.null /\ ~SrcRows[k].cells[c].r.null) =>
            LET cname_len == CnameLen(SrcRows[k].cells[c].r.s, Len(SrcRows[k].r.s))
            IN  /\ cname_len >= 0
                /\ cname_len <= cname_maxlen

=============================================================================
